---- MODULE Spec2Model ----
(***************************************************************************)
(* Vertical-text pagination of the e-book reader.                          *)
(*                                                                         *)
(*   hooks/use-vertical-text-pagination  (src/unnamed/part_005)            *)
(*   lib/utils/content-position-finder.ts                                  *)
(*                                                                         *)
(* A string is a sequence of characters.  A character is a record          *)
(* [c, o]: c is the glyph the program reads, o is the place of the         *)
(* character in the book (chapter index, block index, offset), <<0,0,0>>   *)
(* for a character the program injects.  The program never reads o; it is  *)
(* carried along so that the properties can say where a character of a     *)
(* page came from.                                                         *)
(***************************************************************************)
EXTENDS Integers, Sequences, FiniteSets, TLC

(* ------------------------------ bounds --------------------------------- *)

\* chapters of a book
MaxChapters == 2
\* blocks of a book (over all its chapters)
MaxBlocks == 2
\* characters of a block text
MaxLen == 3
\* characters one column of the measurement element holds
MaxCharsPerColumn == 2
\* columns the display area holds (actualMaxWidth, in column widths)
MaxColumns == 2

(* ------------------------------ glyphs --------------------------------- *)

\* U+3000, the paragraph indent (part_005:282)
Indent == [c |-> "zsp", o |-> <<0, 0, 0>>]
\* '\n', the separator between blocks of one page (part_005:285)
Newline == [c |-> "nl", o |-> <<0, 0, 0>>]
\* the characters findFittingText does not let begin the remainder (part_005:164)
KinsokuNextChars == {"kuten", "touten", "kagi_close", "nijukagi_close", "paren_close", "sumi_close"}
\* DOMPaginationCalculator.kinsokuStart (content-position-finder.ts:346)
kinsokuStart ==
  {"touten", "kuten", "comma", "period", "nakaten", "colon", "semicolon", "question",
   "exclamation", "dakuten", "handakuten", "katakana_iteration", "katakana_voiced_iteration",
   "hiragana_iteration", "hiragana_voiced_iteration", "noma", "choon", "paren_close",
   "bracket_close", "brace_close", "kagi_close", "nijukagi_close", "sumi_close",
   "kikko_close", "yama_close", "nijuyama_close"}
\* DOMPaginationCalculator.kinsokuEnd (content-position-finder.ts:347)
kinsokuEnd ==
  {"paren_open", "bracket_open", "brace_open", "kagi_open", "nijukagi_open", "sumi_open",
   "kikko_open", "yama_open", "nijuyama_open"}
\* the glyphs the block texts of the checked books are written in
Glyphs == {"x", "kuten"}

\* JavaScript's undefined where a number is expected (blockIds[0] of an empty array)
Undefined == -1
\* useState<string | null>(null)
NoError == "null"
\* useState<number | null>(null)
NullIndex == -1
\* new Error('書籍データがありません') (part_005:214)
NoBookDataMessage == "no book data"

(* ------------------------------- books --------------------------------- *)

GlyphSeqs == UNION {[1..k -> Glyphs] : k \in 0..MaxLen}
BlockBodies == [type : {"paragraph", "conversation"}, text : GlyphSeqs]
ChapterBodies(m) == [1..m -> BlockBodies]

\* the books of n chapters with at most budget blocks
RECURSIVE BodiesWith(_, _)
BodiesWith(n, budget) ==
  IF n = 0
  THEN {<<>>}
  ELSE UNION {{<<c>> \o rest : c \in ChapterBodies(m), rest \in BodiesWith(n - 1, budget - m)} :
                m \in 0..budget}

\* the books of at most chapters chapters and blocks blocks
BookBodies(chapters, blocks) == UNION {BodiesWith(n, blocks) : n \in 0..chapters}

\* types/book.ts: chapters carry an id unique in the book, blocks an id unique
\* in their chapter
BookOf(body) ==
  [content |-> [chapters |->
    [ci \in 1..Len(body) |->
      [id |-> ci,
       blocks |-> [bi \in 1..Len(body[ci]) |->
                    [id |-> bi, type |-> body[ci][bi].type, text |-> body[ci][bi].text]]]]]]

Books(chapters, blocks) == {BookOf(b) : b \in BookBodies(chapters, blocks)}

\* block.text as a string of the model: each character with its place
TextOf(ci, bi, text) == [k \in 1..Len(text) |-> [c |-> text[k], o |-> <<ci, bi, k>>]]

(* --------------------------- measurement ------------------------------- *)

\* columns one line of n characters takes in a vertical-rl element of fixed height
LineColumns(n, cpc) == IF n = 0 THEN 1 ELSE (n + cpc - 1) \div cpc

RECURSIVE ColumnsFrom(_, _, _, _)
ColumnsFrom(s, k, lineLen, cpc) ==
  IF k > Len(s)
  THEN IF lineLen > 0 THEN LineColumns(lineLen, cpc) ELSE 0
  ELSE IF s[k].c = "nl"
       THEN LineColumns(lineLen, cpc) + ColumnsFrom(s, k + 1, 0, cpc)
       ELSE ColumnsFrom(s, k + 1, lineLen + 1, cpc)

\* measureDiv.textContent = content; return measureDiv.scrollWidth
\* (in column widths; the element is vertical-rl, pre-wrap, of height containerHeight)
measureTextWidth(content, cpc) == ColumnsFrom(content, 1, 0, cpc)

(* --------------------------- fitting search ---------------------------- *)

\* the search with the loop condition left < right
RECURSIVE BinarySearchStrict(_, _, _, _, _, _, _, _)
BinarySearchStrict(text, maxWidth, baseContent, separator, cpc, left, right, result) ==
  IF left >= right
  THEN result
  ELSE LET mid == (left + right) \div 2
           testText == SubSeq(text, 1, mid)
           width == measureTextWidth(baseContent \o separator \o testText, cpc)
       IN IF width <= maxWidth
          THEN BinarySearchStrict(text, maxWidth, baseContent, separator, cpc, mid + 1, right, testText)
          ELSE BinarySearchStrict(text, maxWidth, baseContent, separator, cpc, left, mid - 1, result)

RECURSIVE BinarySearch(_, _, _, _, _, _, _, _)
BinarySearch(text, maxWidth, baseContent, separator, cpc, left, right, result) ==
  IF left > right
  THEN result
  ELSE LET mid == (left + right) \div 2
           testText == SubSeq(text, 1, mid)
           width == measureTextWidth(baseContent \o separator \o testText, cpc)
       IN IF width <= maxWidth
          THEN BinarySearch(text, maxWidth, baseContent, separator, cpc, mid + 1, right, testText)
          ELSE BinarySearch(text, maxWidth, baseContent, separator, cpc, left, mid - 1, result)

KinsokuAdjust(text, result) ==
  IF /\ Len(result) > 0
     /\ Len(result) < Len(text)
     /\ text[Len(result) + 1].c \in KinsokuNextChars
     /\ Len(result) > 1
  THEN SubSeq(result, 1, Len(result) - 1)
  ELSE result

findFittingText(text, maxWidth, baseContent, separator, cpc) ==
  KinsokuAdjust(text, BinarySearch(text, maxWidth, baseContent, separator, cpc, 0, Len(text), <<>>))

\* components/vertical-text-paginator.tsx: the search without a kinsoku step
paginatorFindFittingText(text, maxWidth, baseContent, separator, cpc) ==
  BinarySearch(text, maxWidth, baseContent, separator, cpc, 0, Len(text), <<>>)

\* DOMPaginationCalculator.measureText: the text alone against the container
measureText(text, maxWidth, cpc) == [overflow |-> measureTextWidth(text, cpc) > maxWidth]

\* the loop of findOptimalBreakPoint
RECURSIVE BreakPointSearch(_, _, _, _, _, _)
BreakPointSearch(text, maxWidth, cpc, left, right, bestFit) ==
  IF left > right
  THEN bestFit
  ELSE LET mid == (left + right) \div 2
           measurement == measureText(SubSeq(text, 1, mid), maxWidth, cpc)
       IN IF ~measurement.overflow
          THEN BreakPointSearch(text, maxWidth, cpc, mid + 1, right, mid)
          ELSE BreakPointSearch(text, maxWidth, cpc, left, mid - 1, bestFit)

\* the positions the trailing-prohibited loop of applyKinsoku looks at
KinsokuLookAhead == 10

\* for (i = position - 1; i > 0; i--): the first i whose character text[i]
\* may begin a page and whose prefix fits (0: none)
RECURSIVE SafeBefore(_, _, _, _)
SafeBefore(text, i, maxWidth, cpc) ==
  IF i <= 0
  THEN 0
  ELSE IF /\ text[i + 1].c \notin kinsokuStart
          /\ ~measureText(SubSeq(text, 1, i), maxWidth, cpc).overflow
       THEN i
       ELSE SafeBefore(text, i - 1, maxWidth, cpc)

\* for (i = position + 1; i < text.length && i < position + 10; i++): the
\* first i whose character text[i - 1] may end a page and whose prefix fits (0: none)
RECURSIVE SafeAfter(_, _, _, _, _)
SafeAfter(text, position, i, maxWidth, cpc) ==
  IF ~(i < Len(text) /\ i < position + KinsokuLookAhead)
  THEN 0
  ELSE IF /\ text[i].c \notin kinsokuEnd
          /\ ~measureText(SubSeq(text, 1, i), maxWidth, cpc).overflow
       THEN i
       ELSE SafeAfter(text, position, i + 1, maxWidth, cpc)

applyKinsoku(text, position, maxWidth, cpc) ==
  IF position <= 0 \/ position >= Len(text)
  THEN position
  ELSE LET nextChar == text[position + 1].c
           prevChar == text[position].c
           before == IF nextChar \in kinsokuStart
                     THEN SafeBefore(text, position - 1, maxWidth, cpc)
                     ELSE 0
           after == SafeAfter(text, position, position + 1, maxWidth, cpc)
       IN IF before > 0 THEN before
          ELSE IF prevChar \in kinsokuEnd
          THEN IF after > 0 THEN after ELSE IF position - 1 > 0 THEN position - 1 ELSE 0
          ELSE position

findOptimalBreakPoint(text, maxWidth, cpc) ==
  IF Len(text) = 0
  THEN 0
  ELSE applyKinsoku(text, BreakPointSearch(text, maxWidth, cpc, 0, Len(text), 0), maxWidth, cpc)

(* ------------------------------- pages --------------------------------- *)

enrichPageWithMetadata(pageContent, chapterId, blockIds, isChapterStart, isChapterEnd, endOffset) ==
  [content |-> pageContent,
   isChapterStart |-> isChapterStart,
   isChapterEnd |-> isChapterEnd,
   metadata |-> [chapterId |-> chapterId,
                 blockIds |-> blockIds,
                 startBlockId |-> IF Len(blockIds) > 0 THEN blockIds[1] ELSE Undefined,
                 endBlockId |-> IF Len(blockIds) > 0 THEN blockIds[Len(blockIds)] ELSE Undefined,
                 endBlockCharacterOffset |-> endOffset]]

\* calculatedPages.push({id, content, chapterTitle, isChapterEnd, metadata}):
\* isChapterStart of the page data is not copied
PageOf(pageData) ==
  [content |-> pageData.content,
   isChapterEnd |-> pageData.isChapterEnd,
   metadata |-> pageData.metadata]

(* ------------------------- position resolver --------------------------- *)

\* Array.prototype.includes
Includes(seq, x) == \E k \in 1..Len(seq) : seq[k] = x

\* page.isChapterStart as findPageByChapterId reads it (line 81): undefined,
\* which is falsy, on a page that has no such field
IsChapterStart(page) == IF "isChapterStart" \in DOMAIN page THEN page.isChapterStart ELSE FALSE

\* a function's null result
Null == [null |-> TRUE]
\* Number.MAX_VALUE (content-position-finder.ts:179)
MaxValue == 1000000

RECURSIVE FindByBlockIdFrom(_, _, _)
FindByBlockIdFrom(ps, targetBlockId, i) ==
  IF i >= Len(ps)
  THEN Null
  ELSE IF Includes(ps[i + 1].metadata.blockIds, targetBlockId)
       THEN [pageIndex |-> i, page |-> ps[i + 1], exactMatch |-> TRUE]
       ELSE FindByBlockIdFrom(ps, targetBlockId, i + 1)

findPageByBlockId(ps, targetBlockId) == FindByBlockIdFrom(ps, targetBlockId, 0)

RECURSIVE FindByChapterIdFrom(_, _, _)
FindByChapterIdFrom(ps, targetChapterId, i) ==
  IF i >= Len(ps)
  THEN Null
  ELSE IF ps[i + 1].metadata.chapterId = targetChapterId /\ IsChapterStart(ps[i + 1])
       THEN [pageIndex |-> i, page |-> ps[i + 1], exactMatch |-> TRUE]
       ELSE FindByChapterIdFrom(ps, targetChapterId, i + 1)

findPageByChapterId(ps, targetChapterId) == FindByChapterIdFrom(ps, targetChapterId, 0)

Abs(n) == IF n < 0 THEN -n ELSE n
Max(a, b) == IF a > b THEN a ELSE b
Min(a, b) == IF a < b THEN a ELSE b

getContentPositionFromPage(page, characterOffset) ==
  IF \/ page.metadata.chapterId = 0
     \/ Len(page.metadata.blockIds) = 0
     \/ page.metadata.blockIds[1] = 0
  THEN Null
  ELSE [chapterId |-> page.metadata.chapterId,
        blockId |-> IF page.metadata.startBlockId \notin {0, Undefined}
                    THEN page.metadata.startBlockId
                    ELSE page.metadata.blockIds[1],
        characterOffset |-> Max(0, Min(characterOffset, Len(page.content) - 1))]

\* the inner loop with distance <= bestDistance: on a tie the later page wins
RECURSIVE NearestInPageLastWins(_, _, _, _, _)
NearestInPageLastWins(blockIds, k, index, targetBlockId, best) ==
  IF k > Len(blockIds)
  THEN best
  ELSE LET distance == Abs(blockIds[k] - targetBlockId)
       IN IF distance <= best.distance
          THEN NearestInPageLastWins(blockIds, k + 1, index, targetBlockId,
                                     [distance |-> distance, index |-> index])
          ELSE NearestInPageLastWins(blockIds, k + 1, index, targetBlockId, best)

\* the inner loop over the block ids of one page (lines 184-190)
RECURSIVE NearestInPage(_, _, _, _, _)
NearestInPage(blockIds, k, index, targetBlockId, best) ==
  IF k > Len(blockIds)
  THEN best
  ELSE LET distance == Abs(blockIds[k] - targetBlockId)
       IN IF distance < best.distance
          THEN NearestInPage(blockIds, k + 1, index, targetBlockId,
                             [distance |-> distance, index |-> index])
          ELSE NearestInPage(blockIds, k + 1, index, targetBlockId, best)

\* the outer loop over the pages of the chapter (lines 181-191)
RECURSIVE NearestInChapter(_, _, _, _, _)
NearestInChapter(ps, matches, m, targetBlockId, best) ==
  IF m > Len(matches)
  THEN best
  ELSE NearestInChapter(ps, matches, m + 1, targetBlockId,
         NearestInPage(ps[matches[m] + 1].metadata.blockIds, 1, matches[m], targetBlockId, best))

\* the indexes of the pages of a chapter, in page order (lines 169-171)
RECURSIVE ChapterMatchesFrom(_, _, _)
ChapterMatchesFrom(ps, chapterId, i) ==
  IF i >= Len(ps)
  THEN <<>>
  ELSE (IF ps[i + 1].metadata.chapterId = chapterId THEN <<i>> ELSE <<>>)
       \o ChapterMatchesFrom(ps, chapterId, i + 1)

findNearestPageToPosition(ps, pos) ==
  LET exactMatch == findPageByBlockId(ps, pos.blockId)
      chapterMatches == ChapterMatchesFrom(ps, pos.chapterId, 0)
  IN IF exactMatch # Null
     THEN exactMatch
     ELSE IF Len(chapterMatches) = 0
     THEN Null
     ELSE LET best == NearestInChapter(ps, chapterMatches, 1, pos.blockId,
                                       [distance |-> MaxValue, index |-> chapterMatches[1]])
          IN [pageIndex |-> best.index, page |-> ps[best.index + 1], exactMatch |-> FALSE]

(* ------------------ one run of calculatePagination --------------------- *)

\* await requestAnimationFrame every tenth block (part_005:238)
YieldEvery == 10

RECURSIVE BlocksOfChapter(_, _, _)
BlocksOfChapter(chapter, ci, bi) ==
  IF bi > Len(chapter.blocks)
  THEN <<>>
  ELSE <<[type |-> chapter.blocks[bi].type,
          chapterId |-> chapter.id,
          blockId |-> chapter.blocks[bi].id,
          content |-> TextOf(ci, bi, chapter.blocks[bi].text)]>>
       \o BlocksOfChapter(chapter, ci, bi + 1)

RECURSIVE BlocksFrom(_, _)
BlocksFrom(chapters, ci) ==
  IF ci > Len(chapters)
  THEN <<>>
  ELSE <<[type |-> "chapter", chapterId |-> chapters[ci].id, blockId |-> 0, content |-> <<>>]>>
       \o BlocksOfChapter(chapters[ci], ci, 1)
       \o BlocksFrom(chapters, ci + 1)

getStructuredBlocks(book) == BlocksFrom(book.content.chapters, 1)

\* the local variables of an invocation that has not begun
NewRun(book, cpc, maxWidth) ==
  [pc |-> "start",
   bookData |-> book,
   charsPerColumn |-> cpc,
   actualMaxWidth |-> maxWidth,
   structuredBlocks |-> <<>>,
   i |-> 0,
   calculatedPages |-> <<>>,
   currentPageContent |-> <<>>,
   currentChapterId |-> 1,
   currentBlockIds |-> <<>>,
   lastBlockCharacterOffset |-> 0,
   blockTexts |-> <<>>,
   currentBlockProcessedLength |-> 0,
   blockId |-> 0,
   remainingContent |-> <<>>]

\* Map.set
MapSet(m, key, value) == [x \in (DOMAIN m) \cup {key} |-> IF x = key THEN value ELSE m[x]]
\* blockTexts.get(blockId) || ''
MapGet(m, key) == IF key \in DOMAIN m THEN m[key] ELSE <<>>

\* fittingPortion.replace(/U+3000/g, '').length
StrippedLength(s) == Cardinality({k \in 1..Len(s) : s[k].c # "zsp"})

NeedsYield(i) == i = 0 \/ i % YieldEvery = 0

Measure(r, content) == measureTextWidth(content, r.charsPerColumn)
Fit(r, text, baseContent, separator) ==
  findFittingText(text, r.actualMaxWidth, baseContent, separator, r.charsPerColumn)

Push(r, content, blockIds, isChapterEnd, endOffset) ==
  Append(r.calculatedPages,
         PageOf(enrichPageWithMetadata(content, r.currentChapterId, blockIds,
                                       FALSE, isChapterEnd, endOffset)))

\* substring(0): the part already placed is not skipped
RestAfterKeeping(text, portion) == text
\* substring(fittingPortion.length + 1): one character too far
RestAfterSkipping(text, portion) == SubSeq(text, Len(portion) + 2, Len(text))
\* blockContent.substring(fittingPortion.length) (lines 330, 363, 422)
RestAfter(text, portion) == SubSeq(text, Len(portion) + 1, Len(text))

\* lines 206-233: up to the loop
Begin(r) ==
  LET blocks == getStructuredBlocks(r.bookData)
  IN IF Len(blocks) = 0
     THEN [r EXCEPT !.pc = "failed"]
     ELSE [r EXCEPT !.pc = "for", !.structuredBlocks = blocks]

AtLoopHead(r) == r.pc = "for" /\ r.i < Len(r.structuredBlocks)
\* the block of this iteration is about to be processed
AtBody(r) == r.pc = "body" \/ (AtLoopHead(r) /\ ~NeedsYield(r.i))
CurrentBlock(r) == r.structuredBlocks[r.i + 1]

\* lines 237-242
YieldAt(r) == [r EXCEPT !.pc = "await"]
\* the frame callback resolves the promise
ResumeAt(r) == [r EXCEPT !.pc = "body"]

\* the chapter block without lines 246-266: the open page is not closed
ChapterBlockKeepsPage(r) ==
  LET block == CurrentBlock(r)
  IN [r EXCEPT
        !.currentChapterId = IF block.chapterId # 0 THEN block.chapterId ELSE @ + 1,
        !.lastBlockCharacterOffset = 0,
        !.i = @ + 1,
        !.pc = "for"]

\* lines 244-271
ChapterBlock(r) ==
  LET block == CurrentBlock(r)
      closed == Len(r.currentPageContent) > 0
  IN [r EXCEPT
        !.calculatedPages =
           IF closed
           THEN Push(r, r.currentPageContent, r.currentBlockIds, TRUE, r.lastBlockCharacterOffset)
           ELSE @,
        !.currentPageContent = <<>>,
        !.currentBlockIds = IF closed THEN <<>> ELSE @,
        !.currentChapterId = IF block.chapterId # 0 THEN block.chapterId ELSE @ + 1,
        !.lastBlockCharacterOffset = 0,
        !.i = @ + 1,
        !.pc = "for"]

\* lines 273-297: the locals of a text block's iteration
BlockContentIndented(r) == <<Indent>> \o CurrentBlock(r).content
BlockContent(r) ==
  IF CurrentBlock(r).type = "paragraph"
  THEN <<Indent>> \o CurrentBlock(r).content
  ELSE CurrentBlock(r).content
Separator(r) == IF Len(r.currentPageContent) > 0 THEN <<Newline>> ELSE <<>>
TestContent(r) == r.currentPageContent \o Separator(r) \o BlockContent(r)
Overflows(r) ==
  /\ Measure(r, TestContent(r)) > r.actualMaxWidth
  /\ Len(r.currentPageContent) > 0

\* lines 274-297: the block id is tracked
Tracked(r) ==
  LET block == CurrentBlock(r)
      id == block.blockId
      texts1 == IF id \in DOMAIN r.blockTexts THEN r.blockTexts ELSE MapSet(r.blockTexts, id, block.content)
      fresh == ~Includes(r.currentBlockIds, id)
  IN [r EXCEPT
        !.blockId = id,
        !.blockTexts = IF fresh THEN MapSet(texts1, id, block.content) ELSE texts1,
        !.currentBlockIds = IF fresh THEN Append(@, id) ELSE @,
        !.currentBlockProcessedLength = IF fresh THEN 0 ELSE @]

\* lines 434-440: the block is appended whole
AppendWhole(r) ==
  LET t == Tracked(r)
  IN [t EXCEPT
        !.currentPageContent = TestContent(r),
        !.lastBlockCharacterOffset = Len(MapGet(t.blockTexts, t.blockId)),
        !.i = @ + 1,
        !.pc = "for"]

\* lines 301-334: the part that fits closes the page
SplitBlock(r) ==
  LET t == Tracked(r)
      fittingPortion == Fit(r, BlockContent(r), r.currentPageContent, Separator(r))
      processed == t.currentBlockProcessedLength + StrippedLength(fittingPortion)
  IN [t EXCEPT
        !.currentBlockProcessedLength = processed,
        !.calculatedPages =
           Push(t, r.currentPageContent \o Separator(r) \o fittingPortion,
                t.currentBlockIds, FALSE, processed),
        !.remainingContent = RestAfter(BlockContent(r), fittingPortion),
        !.currentPageContent = <<>>,
        !.currentBlockIds = <<t.blockId>>,
        !.pc = "remaining"]

\* lines 335-369: one iteration of the loop over remainingContent
RemainingStep(r) ==
  IF Len(r.remainingContent) = 0
  THEN [r EXCEPT !.i = @ + 1, !.pc = "for"]
  ELSE IF Measure(r, r.remainingContent) <= r.actualMaxWidth
  THEN [r EXCEPT !.currentPageContent = r.remainingContent,
                 !.remainingContent = <<>>, !.i = @ + 1, !.pc = "for"]
  ELSE LET nextFittingPortion == Fit(r, r.remainingContent, <<>>, <<>>)
           processed == r.currentBlockProcessedLength + StrippedLength(nextFittingPortion)
       IN IF Len(nextFittingPortion) > 0
          THEN [r EXCEPT
                  !.currentBlockProcessedLength = processed,
                  !.calculatedPages = Push(r, nextFittingPortion, <<r.blockId>>, FALSE, processed),
                  !.remainingContent = RestAfter(@, nextFittingPortion)]
          ELSE [r EXCEPT !.remainingContent = <<>>, !.i = @ + 1, !.pc = "for"]

\* lines 370-398: nothing of the block fits; the page is closed without it
MoveBlock(r) ==
  LET t == Tracked(r)
      processed == Len(MapGet(t.blockTexts, t.blockId))
      fits == Measure(r, BlockContent(r)) <= r.actualMaxWidth
  IN [t EXCEPT
        !.currentBlockProcessedLength = processed,
        !.calculatedPages = Push(t, r.currentPageContent, t.currentBlockIds, FALSE, processed),
        !.currentBlockIds = <<t.blockId>>,
        !.currentPageContent = IF fits THEN BlockContent(r) ELSE <<>>,
        !.remainingContent = IF fits THEN <<>> ELSE BlockContent(r),
        !.i = IF fits THEN @ + 1 ELSE @,
        !.pc = IF fits THEN "for" ELSE "remainingBlock"]

\* lines 400-431: one iteration of the loop over remainingBlockContent
RemainingBlockStep(r) ==
  LET fittingText == Fit(r, r.remainingContent, <<>>, <<>>)
      processed == r.currentBlockProcessedLength + StrippedLength(fittingText)
  IN IF Len(r.remainingContent) > 0 /\ Len(fittingText) > 0
     THEN [r EXCEPT
             !.currentBlockProcessedLength = processed,
             !.calculatedPages = Push(r, fittingText, <<r.blockId>>, FALSE, processed),
             !.remainingContent = RestAfter(@, fittingText)]
     ELSE [r EXCEPT
             !.currentPageContent = IF Len(r.remainingContent) > 0 THEN r.remainingContent ELSE @,
             !.remainingContent = <<>>,
             !.i = @ + 1,
             !.pc = "for"]

\* lines 443-460: the open page is flushed
Flush(r) ==
  [r EXCEPT
     !.calculatedPages =
        IF Len(r.currentPageContent) > 0
        THEN Push(r, r.currentPageContent, r.currentBlockIds, FALSE, r.lastBlockCharacterOffset)
        ELSE @,
     !.pc = "done"]

(* ------------------------- the hook's state --------------------------- *)

VARIABLES
  bookData,          \* props: the book
  charsPerColumn,    \* props: containerHeight and fontSize, as characters per column
  actualMaxWidth,    \* measureActualDisplayArea(), in column widths
  run,               \* the local variables of the invocation of calculatePagination
  pages,             \* useState<Page[]>([])
  isCalculating,     \* useState(false)
  error,             \* useState<string | null>(null)
  progress,          \* useState({current: 0, total: 0})
  finderPages,       \* findNearestPageToPosition: the argument pages
  position,          \* findNearestPageToPosition: the argument position
  found,             \* findNearestPageToPosition: the result
  characterOffset,   \* getContentPositionFromPage: the argument characterOffset
  reverse,           \* getContentPositionFromPage: the result
  fitArgs,           \* the fitting searches: the arguments and the geometry
  fitResult,         \* the fitting searches: the result of each variant
  chapterRun,        \* DOMPaginationCalculator.processChapter: its argument and locals
  classRun,          \* the class-based calculators: calculatePages, arguments and results
  reader,            \* PaginatedBookReader: its state, refs and effects
  home,              \* Home with useReadingState: state, localStorage and timeouts
  timer,             \* the recalculation effect's setTimeout(0) is pending
  runs,              \* the invocations of calculatePagination, in the order they began
  frame,             \* the animation frame callbacks of the frame being served
  nextFrame,         \* the animation frame callbacks requested for the next frame
  pagesBy,           \* the invocation that called setPages last (0: none)
  progressBy,        \* the invocation that called setProgress last (0: none)
  maxWidth,          \* props: maxWidth, in column widths
  container,         \* the document: the element measureActualDisplayArea finds
  maxWidthOf,        \* the maxWidth of the render each invocation began in
  initialPosition,   \* props: initialPosition (Null: not supplied)
  hasTriedPositionRestore, \* useRef(false)
  restoredPageIndex, \* useState<number | null>(null)
  restoredBy,        \* the invocations that called setRestoredPageIndex
  mounted,           \* the component that uses the hook is mounted
  measurementDivRef, \* useRef<HTMLDivElement | null>(null): its element's geometry
  attached           \* the measurement elements that are children of document.body

vars == <<bookData, charsPerColumn, actualMaxWidth, run, pages, isCalculating, error, progress,
          finderPages, position, found, characterOffset, reverse,
          fitArgs, fitResult, chapterRun, classRun, reader, home, timer, runs, frame, nextFrame, pagesBy, progressBy,
          maxWidth, container, maxWidthOf, initialPosition, hasTriedPositionRestore,
          restoredPageIndex, restoredBy, mounted, measurementDivRef, attached>>
restoreVars == <<initialPosition, hasTriedPositionRestore, restoredPageIndex, restoredBy>>
documentVars == <<container, mounted, measurementDivRef, attached>>
schedulerVars == <<timer, runs, frame, nextFrame, pagesBy, progressBy, maxWidth, maxWidthOf,
                   restoreVars, documentVars>>
SchedulerIdle ==
  /\ timer = FALSE
  /\ runs = <<>>
  /\ frame = <<>>
  /\ nextFrame = <<>>
  /\ pagesBy = 0
  /\ progressBy = 0
  /\ maxWidth = 0
  /\ maxWidthOf = <<>>
  /\ initialPosition = Null
  /\ hasTriedPositionRestore = FALSE
  /\ restoredPageIndex = NullIndex
  /\ restoredBy = {}
  /\ container = Null
  /\ mounted = TRUE
  /\ measurementDivRef = Null
  /\ attached = 0
props == <<bookData, charsPerColumn, actualMaxWidth>>
hookVars == <<bookData, charsPerColumn, actualMaxWidth, run, pages, isCalculating, error, progress>>
fitVars == <<fitArgs, fitResult>>
componentVars == <<chapterRun, classRun, reader, home>>
finderVars == <<finderPages, position, found, characterOffset, reverse, fitVars, componentVars>>

\* no call of the resolver is under way
Pending == [pending |-> TRUE]
FitIdle ==
  /\ fitArgs = Null
  /\ fitResult = Null
\* the other components are not in use
ComponentsIdle ==
  /\ chapterRun = Null
  /\ classRun = Null
  /\ reader = Null
  /\ home = Null
FinderIdle ==
  /\ finderPages = <<>>
  /\ position = Null
  /\ found = Pending
  /\ characterOffset = 0
  /\ reverse = Pending
  /\ FitIdle
  /\ ComponentsIdle

Init ==
  /\ bookData \in Books(MaxChapters, MaxBlocks)
  /\ charsPerColumn \in 1..MaxCharsPerColumn
  /\ actualMaxWidth \in 0..MaxColumns
  /\ run = NewRun(bookData, charsPerColumn, actualMaxWidth)
  /\ pages = <<>>
  /\ isCalculating = FALSE
  /\ error = NoError
  /\ progress = [current |-> 0, total |-> 0]
  /\ FinderIdle
  /\ SchedulerIdle

\* lines 205-233; an empty block list throws, lines 475-480 catch it
Start ==
  /\ run.pc = "start"
  /\ run' = Begin(run)
  /\ isCalculating' = (run'.pc # "failed")
  /\ error' = IF run'.pc = "failed" THEN NoBookDataMessage ELSE NoError
  /\ progress' = [current |-> 0, total |-> Len(run'.structuredBlocks)]
  /\ UNCHANGED <<finderVars, schedulerVars, props, pages>>

\* lines 238-241: setProgress, then await the next animation frame
Yield ==
  /\ AtLoopHead(run)
  /\ NeedsYield(run.i)
  /\ run' = YieldAt(run)
  /\ progress' = [current |-> run.i, total |-> Len(run.structuredBlocks)]
  /\ UNCHANGED <<finderVars, schedulerVars, props, pages, isCalculating, error>>

Resume ==
  /\ run.pc = "await"
  /\ run' = ResumeAt(run)
  /\ UNCHANGED <<finderVars, schedulerVars, props, pages, isCalculating, error, progress>>

ChapterStart ==
  /\ AtBody(run)
  /\ CurrentBlock(run).type = "chapter"
  /\ run' = ChapterBlock(run)
  /\ UNCHANGED <<finderVars, schedulerVars, props, pages, isCalculating, error, progress>>

BlockFits ==
  /\ AtBody(run)
  /\ CurrentBlock(run).type # "chapter"
  /\ ~Overflows(run)
  /\ run' = AppendWhole(run)
  /\ UNCHANGED <<finderVars, schedulerVars, props, pages, isCalculating, error, progress>>

BlockSplit ==
  /\ AtBody(run)
  /\ CurrentBlock(run).type # "chapter"
  /\ Overflows(run)
  /\ Len(Fit(run, BlockContent(run), run.currentPageContent, Separator(run))) > 0
  /\ run' = SplitBlock(run)
  /\ UNCHANGED <<finderVars, schedulerVars, props, pages, isCalculating, error, progress>>

BlockMove ==
  /\ AtBody(run)
  /\ CurrentBlock(run).type # "chapter"
  /\ Overflows(run)
  /\ Len(Fit(run, BlockContent(run), run.currentPageContent, Separator(run))) = 0
  /\ run' = MoveBlock(run)
  /\ UNCHANGED <<finderVars, schedulerVars, props, pages, isCalculating, error, progress>>

Remaining ==
  /\ run.pc = "remaining"
  /\ run' = RemainingStep(run)
  /\ UNCHANGED <<finderVars, schedulerVars, props, pages, isCalculating, error, progress>>

RemainingBlock ==
  /\ run.pc = "remainingBlock"
  /\ run' = RemainingBlockStep(run)
  /\ UNCHANGED <<finderVars, schedulerVars, props, pages, isCalculating, error, progress>>

\* lines 443-463 and 478-480
Finish ==
  /\ run.pc = "for"
  /\ run.i >= Len(run.structuredBlocks)
  /\ run' = Flush(run)
  /\ pages' = run'.calculatedPages
  /\ progress' = [current |-> Len(run.structuredBlocks), total |-> Len(run.structuredBlocks)]
  /\ isCalculating' = FALSE
  /\ UNCHANGED <<finderVars, schedulerVars, props, error>>

Next ==
  \/ Start
  \/ Yield
  \/ Resume
  \/ ChapterStart
  \/ BlockFits
  \/ BlockSplit
  \/ BlockMove
  \/ Remaining
  \/ RemainingBlock
  \/ Finish

Spec == Init /\ [][Next]_vars

\* every animation frame arrives and the synchronous code between two awaits runs on
FairSpec == Spec /\ WF_vars(Next)

(* ---------------- the hook under re-renders and frames ----------------- *)

\* invocations of calculatePagination in one behaviour
MaxRuns == 2

\* the message of an error thrown by measureTextWidth
MeasurementFailedMessage == "measurement failed"
\* maxWidth - 32 (part_005:201): the default padding, one column width
DefaultPadding == 1

\* one chapter, one block
ShortBook == BookOf(<<(<<[type |-> "conversation", text |-> <<"x">>]>>)>>)
\* YieldEvery chapters without blocks, then a chapter of three blocks of one
\* character: its loop awaits a frame at i = 0 and at i = YieldEvery, and it
\* has a page a block at one column, two pages at two columns
LongBook ==
  BookOf([ci \in 1..(YieldEvery + 1) |->
            IF ci <= YieldEvery
            THEN <<>>
            ELSE [bi \in 1..3 |-> [type |-> "conversation", text |-> <<"x">>]]])
HookBooks == {ShortBook, LongBook}
\* maxWidth of a render: negative, zero, two columns
HookMaxWidths == {-1, 0, 2}
\* characters per column of a render
HookCharsPerColumn == {1}
HookProps == HookBooks \X HookCharsPerColumn \X HookMaxWidths
\* document.querySelector('[style*="maxWidth"]'): no element, or one whose
\* available width is two columns
HookContainers == {Null, [availableWidth |-> 2]}
\* initialPosition: not supplied, or the second block of the first chapter
HookPositions == {Null, [chapterId |-> 1, blockId |-> 2, characterOffset |-> 0]}
\* measurements of a resumed invocation before the one that throws (-1: none throws)
HookThrowAt == {-1, 0, 2}

measureActualDisplayArea(doc, width) ==
  IF doc # Null THEN doc.availableWidth ELSE width - DefaultPadding

\* the guard of the recalculation effect (line 495)
EffectRuns(width) == width # 0

\* the synchronous step of an invocation at its program counter
StepRun(r) ==
  IF r.pc = "start" THEN Begin(r)
  ELSE IF AtLoopHead(r) /\ NeedsYield(r.i) THEN YieldAt(r)
  ELSE IF AtBody(r)
  THEN IF CurrentBlock(r).type = "chapter" THEN ChapterBlock(r)
       ELSE IF ~Overflows(r) THEN AppendWhole(r)
       ELSE IF Len(Fit(r, BlockContent(r), r.currentPageContent, Separator(r))) > 0
       THEN SplitBlock(r)
       ELSE MoveBlock(r)
  ELSE IF r.pc = "remaining" THEN RemainingStep(r)
  ELSE IF r.pc = "remainingBlock" THEN RemainingBlockStep(r)
  ELSE Flush(r)

\* an invocation runs until it awaits a frame or ends
RECURSIVE RunUntilAwait(_)
RunUntilAwait(r) == IF r.pc \in {"await", "done", "failed"} THEN r ELSE RunUntilAwait(StepRun(r))

\* the step of r begins with a call of measureTextWidth (lines 288, 337, 343, 402)
Measures(r) ==
  \/ AtBody(r) /\ CurrentBlock(r).type # "chapter"
  \/ r.pc \in {"remaining", "remainingBlock"} /\ Len(r.remainingContent) > 0

\* an invocation runs until it awaits a frame or ends; measureTextWidth throws
\* at its call number n, counted from 0
RECURSIVE RunUntilAwaitOrThrow(_, _)
RunUntilAwaitOrThrow(r, n) ==
  IF r.pc \in {"await", "done", "failed", "threw"}
  THEN r
  ELSE IF Measures(r) /\ n = 0
  THEN [r EXCEPT !.pc = "threw"]
  ELSE RunUntilAwaitOrThrow(StepRun(r), IF Measures(r) THEN n - 1 ELSE n)

Total(r) == Len(r.structuredBlocks)

\* Publish with a catch block that exposes the pages computed so far
PublishPartial(k, r, started) ==
  /\ pages' = IF r.pc \in {"done", "threw"} THEN r.calculatedPages ELSE pages
  /\ pagesBy' = IF r.pc \in {"done", "threw"} THEN k ELSE pagesBy
  /\ progress' = IF r.pc = "done" THEN [current |-> Total(r), total |-> Total(r)]
                 ELSE IF r.pc = "await" THEN [current |-> r.i, total |-> Total(r)]
                 ELSE IF started THEN [current |-> 0, total |-> 0]
                 ELSE progress
  /\ progressBy' = IF r.pc \in {"done", "await"} \/ started THEN k ELSE progressBy
  /\ isCalculating' = (r.pc = "await")
  /\ error' = IF r.pc = "failed" THEN NoBookDataMessage
              ELSE IF r.pc = "threw" THEN MeasurementFailedMessage
              ELSE IF started THEN NoError ELSE error
  /\ nextFrame' = IF r.pc = "await" THEN Append(nextFrame, k) ELSE nextFrame

\* what an invocation k, now in r, has set since it last ran (lines 206-208,
\* 239, 462-463, 477, 479)
Publish(k, r, started) ==
  /\ pages' = IF r.pc = "done" THEN r.calculatedPages ELSE pages
  /\ pagesBy' = IF r.pc = "done" THEN k ELSE pagesBy
  /\ progress' = IF r.pc = "done" THEN [current |-> Total(r), total |-> Total(r)]
                 ELSE IF r.pc = "await" THEN [current |-> r.i, total |-> Total(r)]
                 ELSE IF started THEN [current |-> 0, total |-> 0]
                 ELSE progress
  /\ progressBy' = IF r.pc \in {"done", "await"} \/ started THEN k ELSE progressBy
  /\ isCalculating' = (r.pc = "await")
  /\ error' = IF r.pc = "failed" THEN NoBookDataMessage
              ELSE IF r.pc = "threw" THEN MeasurementFailedMessage
              ELSE IF started THEN NoError ELSE error
  /\ nextFrame' = IF r.pc = "await" THEN Append(nextFrame, k) ELSE nextFrame

\* lines 465-473: the position is restored by the first invocation that ends
Restore(k, r) ==
  LET tries == r.pc = "done" /\ initialPosition # Null /\ ~hasTriedPositionRestore
      foundResult == findNearestPageToPosition(r.calculatedPages, initialPosition)
  IN /\ hasTriedPositionRestore' = (hasTriedPositionRestore \/ tries)
     /\ restoredPageIndex' =
          IF tries /\ foundResult # Null THEN foundResult.pageIndex ELSE restoredPageIndex
     /\ restoredBy' = IF tries /\ foundResult # Null THEN restoredBy \cup {k} ELSE restoredBy

\* the invocation has called measureTextWidth between r0 and r1
MeasuredIn(r0, r1) ==
  \/ r1.pc = "threw"
  \/ \E b \in (r0.i + 1)..r1.i : r1.structuredBlocks[b].type # "chapter"

\* lines 68-98: the element of another geometry is replaced; none is created
\* while the element of the invocation's geometry is there
UseMeasurementDiv(r0, r1) ==
  IF MeasuredIn(r0, r1)
  THEN /\ measurementDivRef' = [charsPerColumn |-> r1.charsPerColumn]
       /\ attached' = IF measurementDivRef = Null THEN attached + 1 ELSE attached
  ELSE UNCHANGED <<measurementDivRef, attached>>

\* calculatePagination() is called with the props of the current render
Invoke ==
  LET k == Len(runs) + 1
      width == measureActualDisplayArea(container, maxWidth)
      r0 == NewRun(bookData, charsPerColumn, width)
      r == RunUntilAwait(r0)
  IN /\ Len(runs) < MaxRuns
     /\ frame = <<>>
     /\ runs' = Append(runs, r)
     /\ maxWidthOf' = Append(maxWidthOf, maxWidth)
     /\ actualMaxWidth' = width
     /\ Publish(k, r, TRUE)
     /\ Restore(k, r)
     /\ UseMeasurementDiv(r0, r)

HookInit ==
  /\ \E p \in HookProps :
       /\ bookData = p[1]
       /\ charsPerColumn = p[2]
       /\ maxWidth = p[3]
  /\ actualMaxWidth = 0
  /\ container \in HookContainers
  /\ initialPosition \in HookPositions
  /\ run = Null
  /\ pages = <<>>
  /\ isCalculating = FALSE
  /\ error = NoError
  /\ progress = [current |-> 0, total |-> 0]
  /\ FinderIdle
  /\ timer = EffectRuns(maxWidth)
  /\ runs = <<>>
  /\ frame = <<>>
  /\ nextFrame = <<>>
  /\ pagesBy = 0
  /\ progressBy = 0
  /\ maxWidthOf = <<>>
  /\ hasTriedPositionRestore = FALSE
  /\ restoredPageIndex = NullIndex
  /\ restoredBy = {}
  /\ mounted = TRUE
  /\ measurementDivRef = Null
  /\ attached = 0

\* lines 493-501: a render with other props; the effect's cleanup clears the
\* pending timeout and the effect sets a new one if its guard holds
ChangeProps ==
  /\ mounted
  /\ frame = <<>>
  /\ \E p \in HookProps :
       /\ p # <<bookData, charsPerColumn, maxWidth>>
       /\ bookData' = p[1]
       /\ charsPerColumn' = p[2]
       /\ maxWidth' = p[3]
  /\ timer' = EffectRuns(maxWidth')
  /\ UNCHANGED <<actualMaxWidth, run, pages, isCalculating, error, progress, finderVars,
                 runs, frame, nextFrame, pagesBy, progressBy, maxWidthOf, restoreVars,
                 documentVars>>

\* line 497: the timeout fires
TimerFires ==
  /\ timer
  /\ timer' = FALSE
  /\ Invoke
  /\ UNCHANGED <<bookData, charsPerColumn, maxWidth, run, finderVars, frame,
                 initialPosition, container, mounted>>

\* line 514: the caller calls recalculate
Recalculate ==
  /\ mounted
  /\ Invoke
  /\ UNCHANGED <<bookData, charsPerColumn, maxWidth, run, finderVars, frame, timer,
                 initialPosition, container, mounted>>

\* the browser begins an animation frame
FrameBegins ==
  /\ frame = <<>>
  /\ nextFrame # <<>>
  /\ frame' = nextFrame
  /\ nextFrame' = <<>>
  /\ UNCHANGED <<hookVars, finderVars, timer, runs, pagesBy, progressBy, maxWidth, maxWidthOf,
                 restoreVars, documentVars>>

\* line 241: the frame callback resolves the promise and the invocation runs on
FrameCallback ==
  /\ frame # <<>>
  /\ \E n \in HookThrowAt :
       LET k == Head(frame)
           r0 == ResumeAt(runs[k])
           r == RunUntilAwaitOrThrow(r0, n)
       IN /\ runs' = [runs EXCEPT ![k] = r]
          /\ Publish(k, r, FALSE)
          /\ Restore(k, r)
          /\ UseMeasurementDiv(r0, r)
  /\ frame' = Tail(frame)
  /\ UNCHANGED <<props, maxWidth, maxWidthOf, run, finderVars, timer,
                 initialPosition, container, mounted>>

\* the document gets or loses the element measureActualDisplayArea looks for
DocumentChanges ==
  /\ mounted
  /\ frame = <<>>
  /\ container' \in HookContainers \ {container}
  /\ UNCHANGED <<hookVars, finderVars, timer, runs, frame, nextFrame, pagesBy, progressBy,
                 maxWidth, maxWidthOf, restoreVars, mounted, measurementDivRef, attached>>

\* lines 504-507: the caller calls resetPositionRestore
ResetPositionRestore ==
  /\ mounted
  /\ frame = <<>>
  /\ hasTriedPositionRestore \/ restoredPageIndex # NullIndex
  /\ hasTriedPositionRestore' = FALSE
  /\ restoredPageIndex' = NullIndex
  /\ UNCHANGED <<hookVars, finderVars, timer, runs, frame, nextFrame, pagesBy, progressBy,
                 maxWidth, maxWidthOf, initialPosition, restoredBy, documentVars>>

\* lines 484-491 and 499: the component unmounts; the cleanups of the effects run
Unmount ==
  /\ mounted
  /\ frame = <<>>
  /\ mounted' = FALSE
  /\ timer' = FALSE
  /\ measurementDivRef' = Null
  /\ attached' = IF measurementDivRef # Null THEN attached - 1 ELSE attached
  /\ UNCHANGED <<hookVars, finderVars, runs, frame, nextFrame, pagesBy, progressBy,
                 maxWidth, maxWidthOf, restoreVars, container>>

HookNext ==
  \/ ChangeProps
  \/ TimerFires
  \/ Recalculate
  \/ FrameBegins
  \/ FrameCallback
  \/ DocumentChanges
  \/ ResetPositionRestore
  \/ Unmount

HookSpec == HookInit /\ [][HookNext]_vars

(* ------------- the same book under two geometries ---------------------- *)

\* calculatePagination from its call to its end, every frame arriving
RECURSIVE RunToEnd(_)
RunToEnd(r) ==
  IF r.pc \in {"done", "failed"}
  THEN r
  ELSE RunToEnd(IF r.pc = "await" THEN ResumeAt(r) ELSE StepRun(r))

\* blocks of the one chapter of a book
ResizeMaxBlocks == 3

\* block texts of one glyph
ResizeBlockBodies ==
  [type : {"paragraph", "conversation"}, text : UNION {[1..k -> {"x"}] : k \in 0..MaxLen}]
\* the books of one chapter of at most ResizeMaxBlocks blocks
ResizeBooks == {BookOf(<<c>>) : c \in UNION {[1..m -> ResizeBlockBodies] : m \in 0..ResizeMaxBlocks}}

ResizeInit ==
  /\ bookData \in ResizeBooks
  /\ charsPerColumn \in 1..MaxCharsPerColumn
  /\ actualMaxWidth \in 0..MaxColumns
  /\ run = NewRun(bookData, charsPerColumn, actualMaxWidth)
  /\ pages = <<>>
  /\ isCalculating = FALSE
  /\ error = NoError
  /\ progress = [current |-> 0, total |-> 0]
  /\ FinderIdle
  /\ SchedulerIdle

\* the geometry of the render is that of invocation k
GeometryOf(k) == <<runs[k].charsPerColumn, runs[k].actualMaxWidth>> = <<charsPerColumn, actualMaxWidth>>

\* the book is paginated under the geometry of the render, once a geometry
Paginate ==
  /\ Len(runs) < 2
  /\ \A k \in 1..Len(runs) : ~GeometryOf(k)
  /\ LET r == RunToEnd(NewRun(bookData, charsPerColumn, actualMaxWidth))
     IN /\ runs' = Append(runs, r)
        /\ pages' = IF r.pc = "done" THEN r.calculatedPages ELSE pages
        /\ pagesBy' = IF r.pc = "done" THEN Len(runs') ELSE pagesBy
        /\ progress' = [current |-> Total(r), total |-> Total(r)]
        /\ progressBy' = Len(runs')
        /\ error' = IF r.pc = "failed" THEN NoBookDataMessage ELSE NoError
  /\ UNCHANGED <<props, run, isCalculating, finderVars, timer, frame, nextFrame, maxWidth,
                 maxWidthOf, restoreVars, documentVars>>

\* a render with another geometry (lines 493-501)
Resize ==
  /\ Len(runs) = 1
  /\ GeometryOf(1)
  /\ \E cpc \in 1..MaxCharsPerColumn, width \in 0..MaxColumns :
       /\ <<cpc, width>> # <<charsPerColumn, actualMaxWidth>>
       /\ charsPerColumn' = cpc
       /\ actualMaxWidth' = width
  /\ UNCHANGED <<bookData, run, pages, isCalculating, error, progress, finderVars, schedulerVars>>

ResizeNext == Paginate \/ Resize

ResizeSpec == ResizeInit /\ [][ResizeNext]_vars

(* ------------------- the resolver on its arguments -------------------- *)

\* pages of a list handed to the resolver
FinderMaxPages == 2
\* chapter ids 1..2, block ids 1..FinderMaxId
FinderMaxId == 2

\* the block id lists of a page: one or two different ids, in any order
FinderBlockIds ==
  {<<a>> : a \in 1..FinderMaxId}
    \cup {<<a, b>> : <<a, b>> \in {x \in (1..FinderMaxId) \X (1..FinderMaxId) : x[1] # x[2]}}

FinderPage(chapterId, blockIds) ==
  PageOf(enrichPageWithMetadata(<<>>, chapterId, blockIds, FALSE, FALSE, 0))

FinderPageSet == {FinderPage(c, ids) : c \in 1..2, ids \in FinderBlockIds}
FinderPageLists == UNION {[1..n -> FinderPageSet] : n \in 0..FinderMaxPages}
FinderPositions ==
  [chapterId : 1..3, blockId : 1..(FinderMaxId + 1), characterOffset : {0}]

FinderInit ==
  /\ finderPages \in FinderPageLists
  /\ position \in FinderPositions
  /\ found = Pending
  /\ characterOffset = 0
  /\ reverse = Pending
  /\ FitIdle
  /\ ComponentsIdle
  /\ bookData = BookOf(<<>>)
  /\ charsPerColumn = 1
  /\ actualMaxWidth = 1
  /\ run = NewRun(bookData, charsPerColumn, actualMaxWidth)
  /\ pages = <<>>
  /\ isCalculating = FALSE
  /\ error = NoError
  /\ progress = [current |-> 0, total |-> 0]
  /\ SchedulerIdle

Find ==
  /\ found = Pending
  /\ position # Null
  /\ found' = findNearestPageToPosition(finderPages, position)
  /\ UNCHANGED <<hookVars, schedulerVars, finderPages, position, characterOffset, reverse, fitVars, componentVars>>

FinderNext == Find

FinderSpec == FinderInit /\ [][FinderNext]_vars

(* --------------- the reverse mapping on its arguments ----------------- *)

\* chapter ids and block ids 0..PositionMaxId
PositionMaxId == 2
\* characters of the content of the page
PositionMaxLen == 2

\* one or two different ids, in any order
PositionBlockIds ==
  {<<a>> : a \in 0..PositionMaxId}
    \cup {<<a, b>> : <<a, b>> \in {x \in (0..PositionMaxId) \X (0..PositionMaxId) : x[1] # x[2]}}

PositionContents == {[k \in 1..n |-> [c |-> "x", o |-> <<0, 0, 0>>]] : n \in 0..PositionMaxLen}

PositionPages ==
  {PageOf(enrichPageWithMetadata(content, c, ids, FALSE, FALSE, 0)) :
     content \in PositionContents, c \in 0..PositionMaxId, ids \in PositionBlockIds}

PositionInit ==
  /\ \E page \in PositionPages : finderPages = <<page>>
  /\ characterOffset \in -1..(PositionMaxLen + 1)
  /\ reverse = Pending
  /\ position = Null
  /\ found = Pending
  /\ FitIdle
  /\ ComponentsIdle
  /\ bookData = BookOf(<<>>)
  /\ charsPerColumn = 1
  /\ actualMaxWidth = 1
  /\ run = NewRun(bookData, charsPerColumn, actualMaxWidth)
  /\ pages = <<>>
  /\ isCalculating = FALSE
  /\ error = NoError
  /\ progress = [current |-> 0, total |-> 0]
  /\ SchedulerIdle

GetPosition ==
  /\ reverse = Pending
  /\ reverse' = getContentPositionFromPage(finderPages[1], characterOffset)
  /\ UNCHANGED <<hookVars, schedulerVars, finderPages, position, found, characterOffset, fitVars, componentVars>>

PositionNext == GetPosition

PositionSpec == PositionInit /\ [][PositionNext]_vars

(* ---------------- the fitting searches on their arguments ------------- *)

\* characters of the text to fit
FitMaxLen == 4
\* the width limit, in column widths
FitMaxWidth == 3

\* a character that may stand anywhere, a leading-prohibited one (in the set
\* of the hook and in kinsokuStart) and a trailing-prohibited one
FitGlyphs == {"x", "kuten", "kagi_open"}
FitTexts == {TextOf(1, 1, t) : t \in UNION {[1..n -> FitGlyphs] : n \in 0..FitMaxLen}}
\* the content of the open page: none, or one character
FitBaseContents == {<<>>, <<[c |-> "x", o |-> <<0, 0, 0>>]>>}
FitSeparators == {<<>>, <<Newline>>}
FitArguments ==
  [text : FitTexts, maxWidth : 0..FitMaxWidth,
   baseContent : FitBaseContents, separator : FitSeparators]

FitInit ==
  /\ fitArgs \in FitArguments
  /\ fitResult = [hook |-> Pending, paginator |-> Pending, breakPoint |-> Pending]
  /\ ComponentsIdle
  /\ finderPages = <<>>
  /\ position = Null
  /\ found = Pending
  /\ characterOffset = 0
  /\ reverse = Pending
  /\ bookData = BookOf(<<>>)
  /\ charsPerColumn \in 1..MaxCharsPerColumn
  /\ actualMaxWidth = 1
  /\ run = NewRun(bookData, charsPerColumn, actualMaxWidth)
  /\ pages = <<>>
  /\ isCalculating = FALSE
  /\ error = NoError
  /\ progress = [current |-> 0, total |-> 0]
  /\ SchedulerIdle

\* part_005, lines 135-173
FitHook ==
  /\ fitResult.hook = Pending
  /\ fitResult' =
       [fitResult EXCEPT !.hook =
          [portion |-> findFittingText(fitArgs.text, fitArgs.maxWidth, fitArgs.baseContent,
                                       fitArgs.separator, charsPerColumn)]]
  /\ UNCHANGED <<hookVars, schedulerVars, finderPages, position, found, characterOffset,
                 reverse, fitArgs, componentVars>>

\* components/vertical-text-paginator.tsx, lines 130-157
FitPaginator ==
  /\ fitResult.paginator = Pending
  /\ fitResult' =
       [fitResult EXCEPT !.paginator =
          [portion |-> paginatorFindFittingText(fitArgs.text, fitArgs.maxWidth,
                                                fitArgs.baseContent, fitArgs.separator,
                                                charsPerColumn)]]
  /\ UNCHANGED <<hookVars, schedulerVars, finderPages, position, found, characterOffset,
                 reverse, fitArgs, componentVars>>

\* content-position-finder.ts, lines 518-542: the text alone is measured
FitBreakPoint ==
  /\ fitResult.breakPoint = Pending
  /\ fitResult' =
       [fitResult EXCEPT !.breakPoint =
          [position |-> findOptimalBreakPoint(fitArgs.text, fitArgs.maxWidth, charsPerColumn)]]
  /\ UNCHANGED <<hookVars, schedulerVars, finderPages, position, found, characterOffset,
                 reverse, fitArgs, componentVars>>

FitNext ==
  \/ FitHook
  \/ FitPaginator
  \/ FitBreakPoint

FitSpec == FitInit /\ [][FitNext]_vars

(* ------------------------ properties of a run -------------------------- *)

Done == run.pc = "done"

RECURSIVE Concat(_, _)
Concat(seqs, k) == IF k > Len(seqs) THEN <<>> ELSE seqs[k] \o Concat(seqs, k + 1)

\* the characters of the book in reading order
BookText(book) ==
  LET chapters == book.content.chapters
      ChapterText(ci) ==
        Concat([bi \in 1..Len(chapters[ci].blocks) |-> TextOf(ci, bi, chapters[ci].blocks[bi].text)], 1)
  IN Concat([ci \in 1..Len(chapters) |-> ChapterText(ci)], 1)

Injected(ch) == ch.o = <<0, 0, 0>>
\* the characters of s that come from the book
FromBook(s) == SelectSeq(s, LAMBDA ch : ~Injected(ch))
PagesText(ps) == Concat([k \in 1..Len(ps) |-> ps[k].content], 1)

\* block (ci, bi) has characters on page p
OnPage(p, ci, bi) == \E k \in 1..Len(p.content) : p.content[k].o[1] = ci /\ p.content[k].o[2] = bi
ChapterOnPage(p, ci) == \E k \in 1..Len(p.content) : p.content[k].o[1] = ci
PagesOfBlock(ps, ci, bi) == {k \in 1..Len(ps) : OnPage(ps[k], ci, bi)}
ChapterIndexes == 1..MaxChapters
BlockIndexes == 1..MaxBlocks

\* C1: when calculatePagination completes, the page contents in page order,
\* without the injected indents and separators, are the block texts of the book
\* in chapter order then block order: nothing dropped, duplicated or reordered.
C1_Coverage == Done => FromBook(PagesText(pages)) = BookText(bookData)

\* a block was split over two pages, one of which also holds an indent and a separator
C1_Witness ==
  /\ Done
  /\ \E ci \in ChapterIndexes, bi \in BlockIndexes : Cardinality(PagesOfBlock(pages, ci, bi)) >= 2
  /\ \E k \in 1..Len(pages) :
       /\ \E j \in 1..Len(pages[k].content) : pages[k].content[j] = Indent
       /\ \E j \in 1..Len(pages[k].content) : pages[k].content[j] = Newline

\* one character fits an empty page
FitPossible == actualMaxWidth >= 1

\* C2: every emitted page fits: measureTextWidth(page.content) <= the width limit
\* of the run, also for a block larger than a page placed first on an empty page
\* (stated for the geometries under which a page can hold a character at all).
C2_Fit ==
  (Done /\ FitPossible) => \A k \in 1..Len(pages) : measureTextWidth(pages[k].content, charsPerColumn) <= actualMaxWidth

\* ch is the first character of its chapter in the book
FirstOfChapter(ch) ==
  SelectSeq(BookText(bookData), LAMBDA x : x.o[1] = ch.o[1])[1] = ch

\* C3: no page holds text of two chapters, and the first character of every
\* chapter is preceded on its page by nothing of the book.
C3_ChapterClosesPage ==
  Done =>
    \A k \in 1..Len(pages) :
      LET content == pages[k].content
      IN /\ \A a, b \in 1..Len(content) :
              (~Injected(content[a]) /\ ~Injected(content[b])) => content[a].o[1] = content[b].o[1]
         /\ \A a \in 1..Len(content) :
              (~Injected(content[a]) /\ FirstOfChapter(content[a]))
                => FromBook(content)[1] = content[a]

\* two chapters with text, and the first chapter's last page had room for more
C3_Witness ==
  /\ Done
  /\ Len(pages) = 2
  /\ ChapterOnPage(pages[1], 1)
  /\ ChapterOnPage(pages[2], 2)
  /\ measureTextWidth(pages[1].content \o <<Newline>> \o pages[2].content, charsPerColumn)
       <= actualMaxWidth

\* C4: for every chapter with text on the pages, the first page that holds it
\* has isChapterStart = true and no other page of the chapter has.
C4_ChapterStartFlag ==
  Done =>
    \A ci \in ChapterIndexes :
      LET holding == {k \in 1..Len(pages) : ChapterOnPage(pages[k], ci)}
      IN \A k \in holding :
           IsChapterStart(pages[k]) <=> (\A j \in holding : k <= j)

\* C8: for every page p at index i of the computed page list,
\* findNearestPageToPosition(pages, getContentPositionFromPage(p)) is page i,
\* as an exact match; also for a page that begins in the middle of a block.
C8_RoundTrip ==
  Done =>
    \A k \in 1..Len(pages) :
      LET pos == getContentPositionFromPage(pages[k], 0)
      IN /\ pos # Null
         /\ findNearestPageToPosition(pages, pos) # Null
         /\ findNearestPageToPosition(pages, pos).pageIndex = k - 1
         /\ findNearestPageToPosition(pages, pos).exactMatch

\* the (chapterId, blockId) pairs of the book
BookPositions(book) ==
  {[chapterId |-> book.content.chapters[ci].id,
    blockId |-> book.content.chapters[ci].blocks[bi].id,
    characterOffset |-> 0] :
     <<ci, bi>> \in {x \in ChapterIndexes \X BlockIndexes :
                      /\ x[1] <= Len(book.content.chapters)
                      /\ x[2] <= Len(book.content.chapters[x[1]].blocks)}}

\* the block has text, so some page holds it
HasText(book, pos) ==
  \E ci \in ChapterIndexes, bi \in BlockIndexes :
    /\ ci <= Len(book.content.chapters)
    /\ bi <= Len(book.content.chapters[ci].blocks)
    /\ book.content.chapters[ci].id = pos.chapterId
    /\ book.content.chapters[ci].blocks[bi].id = pos.blockId
    /\ Len(book.content.chapters[ci].blocks[bi].text) > 0

\* C9: every position naming an existing (chapterId, blockId) resolves to a page
\* of that chapter whose blockIds contains that block id (stated for the blocks
\* that have text).
C9_PositionMeaningful ==
  Done =>
    \A pos \in {q \in BookPositions(bookData) : HasText(bookData, q)} :
      LET result == findNearestPageToPosition(pages, pos)
      IN /\ result # Null
         /\ result.page.metadata.chapterId = pos.chapterId
         /\ Includes(result.page.metadata.blockIds, pos.blockId)

Ended == run.pc \in {"done", "failed"} /\ ~isCalculating

\* the book has no block: no chapter, or chapters that all have zero blocks
NoBlocks(book) ==
  \A ci \in 1..Len(book.content.chapters) : Len(book.content.chapters[ci].blocks) = 0

\* C15: for a book with zero chapters, and for a book whose chapters all have
\* zero blocks, calculatePagination ends with error set to the no-content
\* message; it never ends with error = null and an empty page list.
C15_EmptyBook ==
  (Ended /\ NoBlocks(bookData)) =>
    /\ error = NoBookDataMessage
    /\ ~(error = NoError /\ pages = <<>>)

\* C5: with every animation frame arriving, calculatePagination ends
\* (isCalculating is false again) for every book and every geometry, and an
\* iteration of a split loop that is followed by another one has consumed characters.
C5_Terminates ==
  /\ <>Ended
  /\ [][(run.pc \in {"remaining", "remainingBlock"} /\ run'.pc = run.pc)
          => Len(run'.remainingContent) < Len(run.remainingContent)]_vars

\* a run has ended with one block spread over three pages or more
C5_Witness ==
  /\ Ended
  /\ \E ci \in ChapterIndexes, bi \in BlockIndexes : Cardinality(PagesOfBlock(pages, ci, bi)) >= 3

(* --------------------- properties of the resolver --------------------- *)

PageIndexes == 0..(Len(finderPages) - 1)
HoldsBlock(i) == Includes(finderPages[i + 1].metadata.blockIds, position.blockId)
InChapter(i) == finderPages[i + 1].metadata.chapterId = position.chapterId
\* the least |blockId - position.blockId| over the block ids of page i
Distance(i) ==
  LET ids == finderPages[i + 1].metadata.blockIds
      ds == {Abs(ids[k] - position.blockId) : k \in 1..Len(ids)}
  IN CHOOSE d \in ds : \A e \in ds : d <= e

\* C10: the result is (a) the lowest-index page whose blockIds contains
\* position.blockId, as an exact match; otherwise (b) among the pages of
\* position.chapterId the one holding a block id nearest to position.blockId,
\* the lowest index on ties, not an exact match; otherwise (c) null.
C10_ResolutionPriority ==
  found # Pending =>
    IF \E i \in PageIndexes : HoldsBlock(i)
    THEN /\ found # Null
         /\ HoldsBlock(found.pageIndex)
         /\ \A j \in PageIndexes : HoldsBlock(j) => found.pageIndex <= j
         /\ found.page = finderPages[found.pageIndex + 1]
         /\ found.exactMatch
    ELSE IF \E i \in PageIndexes : InChapter(i)
    THEN /\ found # Null
         /\ InChapter(found.pageIndex)
         /\ \A j \in PageIndexes :
              InChapter(j) =>
                \/ Distance(found.pageIndex) < Distance(j)
                \/ Distance(found.pageIndex) = Distance(j) /\ found.pageIndex <= j
         /\ found.page = finderPages[found.pageIndex + 1]
         /\ ~found.exactMatch
    ELSE found = Null

\* no page holds the block, two pages of the chapter are equally near, and the
\* earlier one is returned
C10_Witness ==
  /\ found # Pending
  /\ found # Null
  /\ ~found.exactMatch
  /\ \E j \in PageIndexes :
       j > found.pageIndex /\ InChapter(j) /\ Distance(j) = Distance(found.pageIndex)

(* ----------------- properties of the reverse mapping ------------------ *)

\* offset clamped to [0, len - 1]
Clamp(offset, len) == IF offset > len - 1 THEN len - 1 ELSE IF offset < 0 THEN 0 ELSE offset

\* C11: for every page with a non-empty blockIds, getContentPositionFromPage
\* returns, never null, (metadata.chapterId, metadata.startBlockId, the offset
\* clamped to the content), also for a chapter id or block id 0 (the clamp is
\* stated for pages with content).
C11_ReverseMapping ==
  (reverse # Pending /\ Len(finderPages[1].content) > 0) =>
    /\ reverse # Null
    /\ reverse.chapterId = finderPages[1].metadata.chapterId
    /\ reverse.blockId = finderPages[1].metadata.startBlockId
    /\ reverse.characterOffset = Clamp(characterOffset, Len(finderPages[1].content))

(* ------------------- properties of the scheduling --------------------- *)

Suspended == {k \in 1..Len(runs) : runs[k].pc = "await"}
Quiescent == ~timer /\ Suspended = {} /\ frame = <<>> /\ nextFrame = <<>>

\* C6: an invocation never sets pages or progress after a later one has begun,
\* and when all invocations have ended the pages are those of the one begun last.
C6_LastWriterWins ==
  /\ [](progressBy \in {0, Len(runs)})
  /\ [][pagesBy' # pagesBy => pagesBy' = Len(runs')]_vars
  /\ []((Quiescent /\ Len(runs) > 0 /\ runs[Len(runs)].pc = "done") => pagesBy = Len(runs))

\* C7: at most one invocation is in progress at any time.
C7_OneRunAtATime == Cardinality(Suspended) <= 1

\* the content sequence of a page list
Contents(ps) == [k \in 1..Len(ps) |-> ps[k].content]

\* C12: two invocations that began with the same book and the same
\* (containerHeight, maxWidth, fontSize, lineHeight) and ran to their end have
\* page lists of the same contents, whatever else differed (stated for a
\* positive maxWidth).
C12_Determinism ==
  \A j, k \in 1..Len(runs) :
    (/\ runs[j].pc = "done"
     /\ runs[k].pc = "done"
     /\ runs[j].bookData = runs[k].bookData
     /\ runs[j].charsPerColumn = runs[k].charsPerColumn
     /\ maxWidthOf[j] = maxWidthOf[k]
     /\ maxWidthOf[j] > 0)
      => Contents(runs[j].calculatedPages) = Contents(runs[k].calculatedPages)

(* ----------------- properties of two geometries ----------------------- *)

\* every text that fits under the geometry of r2 fits under that of r1
AdmitsNoMore(r2, r1) ==
  /\ r2.charsPerColumn <= r1.charsPerColumn
  /\ r2.actualMaxWidth <= r1.actualMaxWidth

\* C13: for the same book, a geometry that admits no more text per page gives
\* at least as many pages (stated for geometries under which a page can hold
\* a character).
C13_MonotonePageCount ==
  (Len(runs) = 2 /\ AdmitsNoMore(runs[2], runs[1]) /\ runs[2].actualMaxWidth >= 1)
    => Len(runs[2].calculatedPages) >= Len(runs[1].calculatedPages)

(* --------------------- properties of the hook ------------------------- *)

\* C14: with a maxWidth <= 0 (the books of the hook are not empty) the hook
\* does not come to rest with error = null, and no page list computed by an
\* invocation that began with such a maxWidth is exposed.
C14_InvalidGeometry ==
  /\ (mounted /\ Quiescent /\ maxWidth <= 0) => error # NoError
  /\ \A k \in 1..Len(runs) : (pagesBy = k /\ maxWidthOf[k] <= 0) => pages = <<>>

C17_RestoreEveryRun ==
  \A k \in 1..Len(runs) :
    (/\ runs[k].pc = "done"
     /\ initialPosition # Null
     /\ findNearestPageToPosition(runs[k].calculatedPages, initialPosition) # Null)
      => k \in restoredBy

\* C18: at most one measurement element is attached to document.body while
\* the hook is mounted (a superseded one is removed), and none remains
\* attached once the hook's cleanup has run, also when an invocation was
\* suspended at that moment.
C18_MeasurementScoped ==
  /\ mounted => attached <= 1
  /\ ~mounted => attached = 0

(* ---------------- properties of the fitting searches ------------------ *)

\* base + sep + the prefix of n characters of the text does not overflow
FitsAt(text, n, max, baseContent, separator, cpc) ==
  measureTextWidth(baseContent \o separator \o SubSeq(text, 1, n), cpc) <= max

\* the length of the longest prefix that does not overflow (0: none does)
LongestFit(text, max, baseContent, separator, cpc) ==
  LET fitting == {n \in 0..Len(text) : FitsAt(text, n, max, baseContent, separator, cpc)}
  IN IF fitting = {} THEN 0 ELSE CHOOSE n \in fitting : \A m \in fitting : m <= n

\* the hook's and the paginator component's result is the longest prefix that
\* does not overflow, but for the hook's kinsoku step
FittingSearchOfComponents ==
  LET text == fitArgs.text
      longest == LongestFit(text, fitArgs.maxWidth, fitArgs.baseContent, fitArgs.separator,
                            charsPerColumn)
      kinsoku == /\ 1 < longest
                 /\ longest < Len(text)
                 /\ text[longest + 1].c \in KinsokuNextChars
  IN /\ fitResult.paginator # Pending
          => fitResult.paginator.portion = SubSeq(text, 1, longest)
     /\ fitResult.hook # Pending
          => fitResult.hook.portion = SubSeq(text, 1, IF kinsoku THEN longest - 1 ELSE longest)

\* C19: the result of every variant of the fitting search is the longest prefix
\* r of the text such that base + sep + r does not overflow; the only exception
\* is the kinsoku step of the hook, which gives that prefix minus its last
\* character exactly when 1 < |r| < |text| and the character following r is
\* one of the six characters of its list.
C19_FittingSearch ==
  (fitArgs # Null) =>
    /\ FittingSearchOfComponents
    /\ fitResult.breakPoint # Pending
         => fitResult.breakPoint.position =
              LongestFit(fitArgs.text, fitArgs.maxWidth, <<>>, <<>>, charsPerColumn)

\* C19, amended: as C19 for the hook and the paginator component; the break
\* point of DOMPaginationCalculator is the length of a prefix that does not
\* overflow, and it is shorter than the longest such prefix r only when
\* 0 < |r| < |text| and the character following r is leading-prohibited or the
\* last character of r is trailing-prohibited.
C19_FittingSearchAmended ==
  (fitArgs # Null) =>
    /\ FittingSearchOfComponents
    /\ fitResult.breakPoint # Pending
         => LET text == fitArgs.text
                longest == LongestFit(text, fitArgs.maxWidth, <<>>, <<>>, charsPerColumn)
                at == fitResult.breakPoint.position
            IN /\ at \in 0..longest
               /\ at > 0 => FitsAt(text, at, fitArgs.maxWidth, <<>>, <<>>, charsPerColumn)
               /\ at # longest
                    => /\ 0 < longest
                       /\ longest < Len(text)
                       /\ \/ text[longest + 1].c \in kinsokuStart
                          \/ text[longest].c \in kinsokuEnd

\* every variant has run on a text whose longest fitting prefix is followed by
\* a leading-prohibited character: the hook has dropped one character, the
\* paginator component none, and the break point has moved
C19_Witness ==
  /\ fitArgs # Null
  /\ fitResult.hook # Pending
  /\ fitResult.paginator # Pending
  /\ fitResult.breakPoint # Pending
  /\ fitArgs.baseContent # <<>>
  /\ Len(fitResult.paginator.portion) > 1
  /\ Len(fitResult.hook.portion) = Len(fitResult.paginator.portion) - 1
  /\ fitResult.breakPoint.position
       < LongestFit(fitArgs.text, fitArgs.maxWidth, <<>>, <<>>, charsPerColumn)

\* a non-empty prefix of fewer than n characters is followed by a character
\* outside the set: the break can retreat to a place that satisfies the rule
CanRetreat(text, n, prohibited) == \E m \in 1..(n - 1) : text[m + 1].c \notin prohibited

\* C20: when a text is split and the part that fits has at least two
\* characters before the kinsoku adjustment, the remainder carried to the next
\* page does not begin with a leading-prohibited character, also when several
\* prohibited characters follow one another (stated for the texts in which the
\* break can retreat to such a place without emptying the page).
C20_LeadingProhibited ==
  (fitArgs # Null) =>
    LET text == fitArgs.text
        fit == LongestFit(text, fitArgs.maxWidth, fitArgs.baseContent, fitArgs.separator,
                          charsPerColumn)
        alone == LongestFit(text, fitArgs.maxWidth, <<>>, <<>>, charsPerColumn)
    IN /\ (/\ fitResult.hook # Pending
            /\ fit >= 2
            /\ fit < Len(text)
            /\ CanRetreat(text, fit, KinsokuNextChars))
             => RestAfter(text, fitResult.hook.portion)[1].c \notin KinsokuNextChars
       /\ (/\ fitResult.breakPoint # Pending
            /\ alone >= 2
            /\ alone < Len(text)
            /\ CanRetreat(text, alone, kinsokuStart))
             => text[fitResult.breakPoint.position + 1].c \notin kinsokuStart

\* a non-empty prefix of at most n characters ends with a character outside
\* the set: the break can be placed so that the page does not end with one
CanAvoid(text, n, prohibited) == \E m \in 1..n : text[m].c \notin prohibited

\* C21: when a text is split, the part kept on the page does not end with a
\* trailing-prohibited character (an opening bracket of kinsokuEnd), unless
\* every non-empty prefix that fits ends with one, and the part kept still
\* fits.
C21_TrailingProhibited ==
  (fitArgs # Null) =>
    LET text == fitArgs.text
        fit == LongestFit(text, fitArgs.maxWidth, fitArgs.baseContent, fitArgs.separator,
                          charsPerColumn)
        alone == LongestFit(text, fitArgs.maxWidth, <<>>, <<>>, charsPerColumn)
    IN /\ (/\ fitResult.hook # Pending
            /\ fit >= 1
            /\ fit < Len(text))
             => LET kept == fitResult.hook.portion
                IN /\ Len(kept) > 0 =>
                        FitsAt(text, Len(kept), fitArgs.maxWidth, fitArgs.baseContent,
                               fitArgs.separator, charsPerColumn)
                   /\ CanAvoid(text, fit, kinsokuEnd)
                        => (Len(kept) > 0 /\ kept[Len(kept)].c \notin kinsokuEnd)
       /\ (/\ fitResult.breakPoint # Pending
            /\ alone >= 1
            /\ alone < Len(text))
             => LET at == fitResult.breakPoint.position
                IN /\ at > 0 => FitsAt(text, at, fitArgs.maxWidth, <<>>, <<>>, charsPerColumn)
                   /\ CanAvoid(text, alone, kinsokuEnd)
                        => (at > 0 /\ text[at].c \notin kinsokuEnd)

\* C22: when the binary search found that k >= 1 characters fit, the kinsoku
\* adjustment leaves at least one character: findFittingText of the hook
\* returns a non-empty prefix and applyKinsoku a position >= 1.
C22_KinsokuKeepsPage ==
  (fitArgs # Null) =>
    /\ (/\ fitResult.hook # Pending
         /\ LongestFit(fitArgs.text, fitArgs.maxWidth, fitArgs.baseContent, fitArgs.separator,
                        charsPerColumn) >= 1)
          => Len(fitResult.hook.portion) >= 1
    /\ (/\ fitResult.breakPoint # Pending
         /\ LongestFit(fitArgs.text, fitArgs.maxWidth, <<>>, <<>>, charsPerColumn) >= 1)
          => fitResult.breakPoint.position >= 1

(* -------------- DOMPaginationCalculator.processChapter ---------------- *)

\* blocks of the chapter
ChapterMaxBlocks == 2
\* characters of a block text of the chapter
ChapterMaxLen == 2
\* the width of the measurement container, in column widths
ChapterMaxWidth == 2
\* pages after which the model stops following processChapter
ChapterMaxPages == 6

ChapterGlyphs == {"x", "kuten", "kagi_open"}
ChapterBlockBodies ==
  [type : {"paragraph", "conversation"},
   text : UNION {[1..n -> ChapterGlyphs] : n \in 0..ChapterMaxLen}]
\* the chapters of at most ChapterMaxBlocks blocks
Chapters ==
  {BookOf(<<body>>).content.chapters[1] :
     body \in UNION {[1..m -> ChapterBlockBodies] : m \in 0..ChapterMaxBlocks}}

\* lines 594-597: the locals of processChapter(chapter) in a container of
\* width columns and cpc characters a column
NewChapterRun(chapter, cpc, width) ==
  [chapter |-> chapter,
   charsPerColumn |-> cpc,
   width |-> width,
   pc |-> "while",
   chapterPages |-> <<>>,
   currentBlockIndex |-> 0,
   currentCharOffset |-> 0,
   pageContent |-> <<>>,
   pageBreakPoints |-> <<>>,
   remainingSpace |-> TRUE]

\* String.prototype.substring(from): a negative from counts as 0
SubstringFrom(str, from) == SubSeq(str, (IF from < 0 THEN 0 ELSE from) + 1, Len(str))
\* String.prototype.substring(0, to)
SubstringTo(str, to) == SubSeq(str, 1, IF to > Len(str) THEN Len(str) ELSE to)

\* lines 606-637: what an iteration of the inner loop computes before it branches
Iteration(r) ==
  LET block == r.chapter.blocks[r.currentBlockIndex + 1]
      remainingText ==
        SubstringFrom(TextOf(r.chapter.id, block.id, block.text), r.currentCharOffset)
      currentPageText == Concat(r.pageContent, 1)
      isBlockStart == r.currentCharOffset = 0
      indented == isBlockStart /\ block.type = "paragraph"
      textToAdd == IF indented THEN <<Indent>> \o remainingText ELSE remainingText
      needsNewline == isBlockStart /\ Len(r.pageContent) > 0
      connector == IF needsNewline THEN <<Newline>> ELSE <<>>
      testText == currentPageText \o connector \o textToAdd
      breakPoint == findOptimalBreakPoint(testText, r.width, r.charsPerColumn)
  IN [block |-> block,
      remainingText |-> remainingText,
      indented |-> indented,
      needsNewline |-> needsNewline,
      testText |-> testText,
      breakPoint |-> breakPoint,
      addedChars |-> breakPoint - Len(currentPageText)]

\* the inner loop is at the head of an iteration
InInnerLoop(r) ==
  /\ r.pc = "inner"
  /\ r.currentBlockIndex < Len(r.chapter.blocks)
  /\ r.remainingSpace

\* lines 600-603: an iteration of the outer loop begins
BeginPageOf(r) ==
  [r EXCEPT !.pc = "inner", !.pageContent = <<>>, !.pageBreakPoints = <<>>,
            !.remainingSpace = TRUE]

\* lines 609-614: the block has no text left
NextBlockOf(r) == [r EXCEPT !.currentBlockIndex = @ + 1, !.currentCharOffset = 0]

\* lines 639-653: nothing fits on the empty page; one character is placed
ForceCharacterOf(r) ==
  LET it == Iteration(r)
      first == SubstringTo(it.remainingText, 1)
      contentToAdd == IF it.indented THEN <<Indent>> \o first ELSE first
  IN [r EXCEPT
        !.pageContent = Append(@, contentToAdd),
        !.pageBreakPoints =
           Append(@, [chapterId |-> r.chapter.id,
                      blockId |-> it.block.id,
                      characterStart |-> r.currentCharOffset,
                      characterEnd |-> r.currentCharOffset + 1]),
        !.currentCharOffset = @ + 1,
        !.remainingSpace = FALSE]

\* lines 654-692: a part of the block is placed
AddPartOf(r) ==
  LET it == Iteration(r)
      connectorLength == IF it.needsNewline THEN 1 ELSE 0
      effectiveAddedChars == it.addedChars - connectorLength
      originalAddedChars ==
        IF it.indented THEN effectiveAddedChars - 1 ELSE effectiveAddedChars
      part == SubstringTo(it.remainingText,
                          IF originalAddedChars > 1 THEN originalAddedChars ELSE 1)
      withIndent == IF it.indented THEN <<Indent>> \o part ELSE part
      contentToAdd == IF it.needsNewline THEN <<Newline>> \o withIndent ELSE withIndent
      offset == r.currentCharOffset + originalAddedChars
      used == offset >= Len(it.block.text)
  IN [r EXCEPT
        !.pageContent = Append(@, contentToAdd),
        !.pageBreakPoints =
           Append(@, [chapterId |-> r.chapter.id,
                      blockId |-> it.block.id,
                      characterStart |-> r.currentCharOffset,
                      characterEnd |-> offset]),
        !.currentCharOffset = IF used THEN 0 ELSE offset,
        !.currentBlockIndex = IF used THEN @ + 1 ELSE @,
        !.remainingSpace = IF it.breakPoint < Len(it.testText) THEN FALSE ELSE @]

\* lines 693-696: nothing more fits on the page
PageFullOf(r) == [r EXCEPT !.remainingSpace = FALSE]

\* lines 699-712: the page is created; cursor is what the loop has reached
EmitPageOf(r) ==
  [r EXCEPT
     !.pc = "while",
     !.chapterPages =
        IF Len(r.pageContent) > 0
        THEN Append(@, [id |-> Len(@) + 1,
                        content |-> r.pageContent,
                        breakPoints |-> r.pageBreakPoints,
                        cursor |-> <<r.currentBlockIndex, r.currentCharOffset>>])
        ELSE @]

ChapterInit ==
  /\ \E chapter \in Chapters, cpc \in 1..MaxCharsPerColumn, width \in 0..ChapterMaxWidth :
       chapterRun = NewChapterRun(chapter, cpc, width)
  /\ classRun = Null
  /\ reader = Null
  /\ home = Null
  /\ FitIdle
  /\ finderPages = <<>>
  /\ position = Null
  /\ found = Pending
  /\ characterOffset = 0
  /\ reverse = Pending
  /\ bookData = BookOf(<<>>)
  /\ charsPerColumn = 1
  /\ actualMaxWidth = 1
  /\ run = NewRun(bookData, charsPerColumn, actualMaxWidth)
  /\ pages = <<>>
  /\ isCalculating = FALSE
  /\ error = NoError
  /\ progress = [current |-> 0, total |-> 0]
  /\ SchedulerIdle

chapterRest == <<hookVars, schedulerVars, finderPages, position, found, characterOffset,
                 reverse, fitVars, classRun, reader, home>>

BeginPage ==
  /\ chapterRun.pc = "while"
  /\ chapterRun.currentBlockIndex < Len(chapterRun.chapter.blocks)
  /\ Len(chapterRun.chapterPages) < ChapterMaxPages
  /\ chapterRun' = BeginPageOf(chapterRun)
  /\ UNCHANGED chapterRest

NextBlock ==
  /\ InInnerLoop(chapterRun)
  /\ Len(Iteration(chapterRun).remainingText) = 0
  /\ chapterRun' = NextBlockOf(chapterRun)
  /\ UNCHANGED chapterRest

ForceCharacter ==
  /\ InInnerLoop(chapterRun)
  /\ Len(Iteration(chapterRun).remainingText) # 0
  /\ Iteration(chapterRun).addedChars <= 0
  /\ Len(chapterRun.pageContent) = 0
  /\ chapterRun' = ForceCharacterOf(chapterRun)
  /\ UNCHANGED chapterRest

AddPart ==
  /\ InInnerLoop(chapterRun)
  /\ Len(Iteration(chapterRun).remainingText) # 0
  /\ Iteration(chapterRun).addedChars > 0
  /\ chapterRun' = AddPartOf(chapterRun)
  /\ UNCHANGED chapterRest

PageFull ==
  /\ InInnerLoop(chapterRun)
  /\ Len(Iteration(chapterRun).remainingText) # 0
  /\ Iteration(chapterRun).addedChars <= 0
  /\ Len(chapterRun.pageContent) # 0
  /\ chapterRun' = PageFullOf(chapterRun)
  /\ UNCHANGED chapterRest

EmitPage ==
  /\ chapterRun.pc = "inner"
  /\ ~InInnerLoop(chapterRun)
  /\ chapterRun' = EmitPageOf(chapterRun)
  /\ UNCHANGED chapterRest

\* line 714: return chapterPages
ReturnPages ==
  /\ chapterRun.pc = "while"
  /\ chapterRun.currentBlockIndex >= Len(chapterRun.chapter.blocks)
  /\ chapterRun' = [chapterRun EXCEPT !.pc = "done"]
  /\ UNCHANGED chapterRest

ChapterNext ==
  \/ BeginPage
  \/ NextBlock
  \/ ForceCharacter
  \/ AddPart
  \/ PageFull
  \/ EmitPage
  \/ ReturnPages

ChapterSpec == ChapterInit /\ [][ChapterNext]_vars

(* ------------------- properties of processChapter --------------------- *)

\* the cursor (currentBlockIndex, currentCharOffset) b is ahead of a
CursorAhead(a, b) == b[1] > a[1] \/ (b[1] = a[1] /\ b[2] > a[2])

\* the cursor when page k of the chapter was created (page 0: the start)
CursorAt(k) == IF k = 0 THEN <<0, 0>> ELSE chapterRun.chapterPages[k].cursor

\* C23: every page processChapter emits has moved the cursor
\* (currentBlockIndex, currentCharOffset) strictly forward since the page
\* before it, for every chapter and every geometry, so that the pages of a
\* chapter are finitely many.
C23_ForwardProgress ==
  (chapterRun # Null) =>
    \A k \in 1..Len(chapterRun.chapterPages) : CursorAhead(CursorAt(k - 1), CursorAt(k))

\* the text of block id of the chapter, each character with its place
ChapterBlockText(id) ==
  TextOf(chapterRun.chapter.id, id, chapterRun.chapter.blocks[id].text)

\* the characters of the chapter in reading order
ChapterText ==
  Concat([bi \in 1..Len(chapterRun.chapter.blocks) |-> ChapterBlockText(bi)], 1)

\* the pieces of text pushed to page k with their break points
PiecesOf(k) ==
  LET page == chapterRun.chapterPages[k]
  IN [j \in 1..Len(page.content) |-> [content |-> page.content[j], at |-> page.breakPoints[j]]]

\* the pieces of all pages, in order
AllPieces == Concat([k \in 1..Len(chapterRun.chapterPages) |-> PiecesOf(k)], 1)

\* C28: in the pages of processChapter the text added for a block on a page
\* is block.text[characterStart, characterEnd) of the recorded break point,
\* the break points of one block are contiguous, currentCharOffset stays in
\* [0, block.text.length], and when processChapter returns every character of
\* every block appears exactly once, in order.
C28_CharacterAccounting ==
  (chapterRun # Null) =>
    /\ \A j \in 1..Len(AllPieces) :
         LET piece == AllPieces[j]
         IN /\ FromBook(piece.content)
                 = SubSeq(ChapterBlockText(piece.at.blockId),
                          piece.at.characterStart + 1, piece.at.characterEnd)
            /\ piece.at.characterStart =
                 IF j > 1 /\ AllPieces[j - 1].at.blockId = piece.at.blockId
                 THEN AllPieces[j - 1].at.characterEnd
                 ELSE 0
    /\ chapterRun.currentBlockIndex < Len(chapterRun.chapter.blocks)
         => chapterRun.currentCharOffset
              \in 0..Len(chapterRun.chapter.blocks[chapterRun.currentBlockIndex + 1].text)
    /\ chapterRun.pc = "done"
         => Concat([j \in 1..Len(AllPieces) |-> FromBook(AllPieces[j].content)], 1) = ChapterText

(* ------------------ the class-based calculators ----------------------- *)

\* the width of the measurement area, in column widths
ClassMaxWidth == 2

\* the two full-width spaces a paragraph begins with
\* (real-dom-pagination-calculator.ts:213, text-measurement.ts:436)
DoubleIndent == <<Indent, Indent>>

ClassBlockContent(block) ==
  IF block.type = "paragraph" THEN DoubleIndent \o block.content ELSE block.content

\* real-dom-pagination-calculator.ts, lines 101-162: measure(text)
RealDomMeasure(text, cpc, width) ==
  LET overflow == measureTextWidth(text, cpc) > width
  IN [overflow |-> overflow,
      actualText |-> IF overflow
                     THEN BinarySearch(text, width, <<>>, <<>>, cpc, 0, Len(text), <<>>)
                     ELSE text]

\* RealDOMPaginationCalculator.calculatePages: the loop from block i on
RECURSIVE RealDomPages(_, _, _, _, _, _)
RealDomPages(blocks, i, cpc, width, pushed, currentPageContent) ==
  IF i > Len(blocks)
  THEN IF Len(currentPageContent) > 0 THEN Append(pushed, currentPageContent) ELSE pushed
  ELSE IF blocks[i].type = "chapter"
  THEN RealDomPages(blocks, i + 1, cpc, width,
                    IF Len(currentPageContent) > 0
                    THEN Append(pushed, currentPageContent) ELSE pushed,
                    <<>>)
  ELSE LET blockContent == ClassBlockContent(blocks[i])
           measurementResult == RealDomMeasure(currentPageContent \o blockContent, cpc, width)
           newMeasurement == RealDomMeasure(blockContent, cpc, width)
       IN IF measurementResult.overflow /\ Len(currentPageContent) > 0
          THEN IF newMeasurement.overflow
               THEN RealDomPages(blocks, i + 1, cpc, width,
                                 pushed \o <<currentPageContent, newMeasurement.actualText>>,
                                 RestAfter(blockContent, newMeasurement.actualText))
               ELSE RealDomPages(blocks, i + 1, cpc, width,
                                 Append(pushed, currentPageContent), blockContent)
          ELSE RealDomPages(blocks, i + 1, cpc, width, pushed, measurementResult.actualText)

\* text-measurement.ts, lines 361-392: VerticalPaginationCalculator.findFittingText
VerticalFindFittingText(text, cpc, width) ==
  BinarySearch(text, width, <<>>, <<>>, cpc, 0, Len(text), <<>>)

\* VerticalPaginationCalculator.calculatePages: the loop from block i on
RECURSIVE VerticalPages(_, _, _, _, _, _)
VerticalPages(blocks, i, cpc, width, pushed, currentPageContent) ==
  IF i > Len(blocks)
  THEN IF Len(currentPageContent) > 0 THEN Append(pushed, currentPageContent) ELSE pushed
  ELSE IF blocks[i].type = "chapter"
  THEN VerticalPages(blocks, i + 1, cpc, width,
                     IF Len(currentPageContent) > 0
                     THEN Append(pushed, currentPageContent) ELSE pushed,
                     <<>>)
  ELSE LET blockContent == ClassBlockContent(blocks[i])
           testContent == currentPageContent \o blockContent
           fittingText == VerticalFindFittingText(blockContent, cpc, width)
       IN IF measureTextWidth(testContent, cpc) > width /\ Len(currentPageContent) > 0
          THEN IF Len(fittingText) < Len(blockContent)
               THEN VerticalPages(blocks, i + 1, cpc, width,
                                  pushed \o <<currentPageContent, fittingText>>,
                                  RestAfter(blockContent, fittingText))
               ELSE VerticalPages(blocks, i + 1, cpc, width,
                                  Append(pushed, currentPageContent), blockContent)
          ELSE VerticalPages(blocks, i + 1, cpc, width, pushed, testContent)

ClassInit ==
  /\ \E book \in Books(1, MaxBlocks), cpc \in 1..MaxCharsPerColumn, width \in 0..ClassMaxWidth :
       classRun = [blocks |-> getStructuredBlocks(book),
                   charsPerColumn |-> cpc,
                   width |-> width,
                   realDom |-> Pending,
                   vertical |-> Pending]
  /\ chapterRun = Null
  /\ reader = Null
  /\ home = Null
  /\ FitIdle
  /\ finderPages = <<>>
  /\ position = Null
  /\ found = Pending
  /\ characterOffset = 0
  /\ reverse = Pending
  /\ bookData = BookOf(<<>>)
  /\ charsPerColumn = 1
  /\ actualMaxWidth = 1
  /\ run = NewRun(bookData, charsPerColumn, actualMaxWidth)
  /\ pages = <<>>
  /\ isCalculating = FALSE
  /\ error = NoError
  /\ progress = [current |-> 0, total |-> 0]
  /\ SchedulerIdle

classRest == <<hookVars, schedulerVars, finderPages, position, found, characterOffset,
               reverse, fitVars, chapterRun, reader, home>>

\* real-dom-pagination-calculator.ts, lines 181-267
RealDomCalculatePages ==
  /\ classRun.realDom = Pending
  /\ classRun' =
       [classRun EXCEPT !.realDom =
          [pages |-> RealDomPages(classRun.blocks, 1, classRun.charsPerColumn, classRun.width,
                                  <<>>, <<>>)]]
  /\ UNCHANGED classRest

\* text-measurement.ts, lines 397-495
VerticalCalculatePages ==
  /\ classRun.vertical = Pending
  /\ classRun' =
       [classRun EXCEPT !.vertical =
          [pages |-> VerticalPages(classRun.blocks, 1, classRun.charsPerColumn, classRun.width,
                                   <<>>, <<>>)]]
  /\ UNCHANGED classRest

ClassNext ==
  \/ RealDomCalculatePages
  \/ VerticalCalculatePages

ClassSpec == ClassInit /\ [][ClassNext]_vars

\* the text of the blocks, in order
BlocksText(blocks) == Concat([i \in 1..Len(blocks) |-> blocks[i].content], 1)

\* every page of the list fits the area and the pages hold the text of the blocks
FitAndComplete(ps) ==
  /\ \A k \in 1..Len(ps) : measureTextWidth(ps[k], classRun.charsPerColumn) <= classRun.width
  /\ FromBook(Concat(ps, 1)) = BlocksText(classRun.blocks)

\* C24: in the page lists of RealDOMPaginationCalculator.calculatePages and of
\* VerticalPaginationCalculator.calculatePages every page fits the measurement
\* area and the pages together hold the whole text of every block, also of a
\* block several times larger than a page, on an empty or a non-empty page
\* (stated for the areas that hold a character).
C24_RepeatedSplitting ==
  (classRun # Null /\ classRun.width >= 1) =>
    /\ classRun.realDom # Pending => FitAndComplete(classRun.realDom.pages)
    /\ classRun.vertical # Pending => FitAndComplete(classRun.vertical.pages)

(* ------------------- more properties of a run ------------------------- *)

\* the block the character ch of the book comes from
BlockOf(ch) == bookData.content.chapters[ch.o[1]].blocks[ch.o[2]]
\* ch is the first character of a block
FirstOfBlock(ch) == ~Injected(ch) /\ ch.o[3] = 1
\* every paragraph block of the book has text
ParagraphsHaveText ==
  \A ci \in 1..Len(bookData.content.chapters) :
    \A bi \in 1..Len(bookData.content.chapters[ci].blocks) :
      LET block == bookData.content.chapters[ci].blocks[bi]
      IN block.type = "paragraph" => Len(block.text) > 0

\* C25: in the text of the pages of calculatePagination, read page after
\* page, the first character of a block is immediately preceded by the indent
\* exactly when the block is a paragraph, and every indent stands immediately
\* before the first character of a paragraph: one indent a paragraph, none
\* for the continuation of a split block, none for a conversation block
\* (stated for the books whose paragraph blocks have text).
C25_Indentation ==
  (Done /\ ParagraphsHaveText) =>
    LET content == PagesText(pages)
    IN \A a \in 1..Len(content) :
         /\ FirstOfBlock(content[a])
              => ((BlockOf(content[a]).type = "paragraph")
                    <=> (a > 1 /\ content[a - 1] = Indent))
         /\ content[a] = Indent
              => /\ a < Len(content)
                 /\ FirstOfBlock(content[a + 1])
                 /\ BlockOf(content[a + 1]).type = "paragraph"

\* a paragraph was split over two pages, a conversation block is on the pages,
\* and some page ends with the indent of the paragraph that opens the next one
C25_Witness ==
  /\ Done
  /\ ParagraphsHaveText
  /\ \E ci \in ChapterIndexes, bi \in BlockIndexes :
       /\ Cardinality(PagesOfBlock(pages, ci, bi)) >= 2
       /\ bookData.content.chapters[ci].blocks[bi].type = "paragraph"
  /\ \E k \in 1..Len(pages) : \E j \in 1..Len(pages[k].content) :
       /\ ~Injected(pages[k].content[j])
       /\ BlockOf(pages[k].content[j]).type = "conversation"
  /\ \E k \in 1..Len(pages) :
       /\ Len(pages[k].content) > 0
       /\ pages[k].content[Len(pages[k].content)] = Indent

\* the ids of the blocks that have a character in content, in reading order
RECURSIVE ContributingIds(_, _)
ContributingIds(content, a) ==
  IF a > Len(content)
  THEN <<>>
  ELSE IF /\ ~Injected(content[a])
          /\ \A b \in 1..(a - 1) : Injected(content[b]) \/ content[b].o[2] # content[a].o[2]
       THEN <<content[a].o[2]>> \o ContributingIds(content, a + 1)
       ELSE ContributingIds(content, a + 1)

\* C26: for every page of calculatePagination, metadata.blockIds lists exactly
\* the ids of the blocks that have at least one character on the page, in
\* reading order.
C26_BlockIdsExact ==
  Done =>
    \A k \in 1..Len(pages) :
      pages[k].metadata.blockIds = ContributingIds(pages[k].content, 1)

\* the characters of block (ci, bi) on the pages 1..k
PlacedUpTo(k, ci, bi) ==
  Len(SelectSeq(Concat([j \in 1..k |-> pages[j].content], 1),
                LAMBDA ch : ~Injected(ch) /\ ch.o[1] = ci /\ ch.o[2] = bi))

\* C27: for every page of calculatePagination, metadata.endBlockCharacterOffset
\* is the number of characters of block metadata.endBlockId placed on the
\* pages up to and including this one, and lies in 0..length of the block's text.
C27_EndOffsetAccurate ==
  Done =>
    \A k \in 1..Len(pages) :
      LET meta == pages[k].metadata
      IN /\ meta.endBlockCharacterOffset = PlacedUpTo(k, meta.chapterId, meta.endBlockId)
         /\ meta.endBlockCharacterOffset >= 0
         /\ \A ci \in 1..Len(bookData.content.chapters) :
              \A bi \in 1..Len(bookData.content.chapters[ci].blocks) :
                (ci = meta.chapterId /\ bi = meta.endBlockId)
                  => meta.endBlockCharacterOffset
                       <= Len(bookData.content.chapters[ci].blocks[bi].text)

(* ------------------------ PaginatedBookReader --------------------------- *)

\* the width prop of a render, in column widths
ReaderMaxWidth == 3
\* the largest argument of goToPage
ReaderMaxPage == 3

ReaderBooks == {ShortBook, LongBook}
ReaderProps == ReaderBooks \X HookCharsPerColumn \X (1..ReaderMaxWidth)

\* page.tsx, lines 360-362 and 460-461: useState(0), useRef(false), useRef(-1),
\* useRef(0); restoreDeps are the dependencies the restore effect last ran
\* with, navigationTimeout the pending setTimeout of line 479
NewReader ==
  [currentPageIndex |-> 0,
   isNavigatingRef |-> FALSE,
   navigationTimeout |-> FALSE,
   prevPageIndexRef |-> -1,
   prevPagesLengthRef |-> 0,
   restoreDeps |-> <<>>]

\* page.tsx, lines 452-484: the effects of a commit, in the order of their
\* declaration; the restore effect runs when its dependencies have changed and
\* its setCurrentPageIndex causes one more commit
RECURSIVE Commit(_, _, _)
Commit(rd, ps, restored) ==
  LET deps == <<restored, rd.currentPageIndex>>
      jump == /\ deps # rd.restoreDeps
              /\ restored # NullIndex
              /\ restored # rd.currentPageIndex
              /\ ~rd.isNavigatingRef
      changed == /\ Len(ps) > 0
                 /\ \/ rd.currentPageIndex # rd.prevPageIndexRef
                    \/ Len(ps) # rd.prevPagesLengthRef
      after == [rd EXCEPT
                  !.restoreDeps = deps,
                  !.prevPageIndexRef = IF changed THEN rd.currentPageIndex ELSE @,
                  !.prevPagesLengthRef = IF changed THEN Len(ps) ELSE @,
                  !.navigationTimeout = @ \/ (changed /\ rd.isNavigatingRef)]
  IN IF jump
     THEN Commit([after EXCEPT !.currentPageIndex = restored], ps, restored)
     ELSE after

\* setCurrentPageIndex(index) of a handler: a render follows only when the
\* state has changed
SetCurrentPageIndex(rd, index) ==
  IF index = rd.currentPageIndex
  THEN rd
  ELSE Commit([rd EXCEPT !.currentPageIndex = index], pages, restoredPageIndex)

ReaderInit ==
  /\ \E p \in ReaderProps :
       /\ bookData = p[1]
       /\ charsPerColumn = p[2]
       /\ maxWidth = p[3]
  /\ initialPosition \in HookPositions
  /\ reader = Commit(NewReader, <<>>, NullIndex)
  /\ timer = EffectRuns(maxWidth)
  /\ actualMaxWidth = 0
  /\ run = Null
  /\ pages = <<>>
  /\ isCalculating = FALSE
  /\ error = NoError
  /\ progress = [current |-> 0, total |-> 0]
  /\ runs = <<>>
  /\ frame = <<>>
  /\ nextFrame = <<>>
  /\ pagesBy = 0
  /\ progressBy = 0
  /\ maxWidthOf = <<>>
  /\ hasTriedPositionRestore = FALSE
  /\ restoredPageIndex = NullIndex
  /\ restoredBy = {}
  /\ container = Null
  /\ mounted = TRUE
  /\ measurementDivRef = Null
  /\ attached = 0
  /\ finderPages = <<>>
  /\ position = Null
  /\ found = Pending
  /\ characterOffset = 0
  /\ reverse = Pending
  /\ FitIdle
  /\ chapterRun = Null
  /\ classRun = Null
  /\ home = Null

readerRest == <<error, progress, runs, frame, nextFrame, pagesBy, progressBy, maxWidthOf,
                restoredBy, container, mounted, measurementDivRef, attached, initialPosition,
                finderPages, position, found, characterOffset, reverse, fitVars,
                chapterRun, classRun, home>>

\* page.tsx, lines 487-496
goToNextPage ==
  /\ reader' =
       IF reader.currentPageIndex < Len(pages) - 1
       THEN SetCurrentPageIndex([reader EXCEPT !.isNavigatingRef = TRUE],
                                reader.currentPageIndex + 1)
       ELSE [reader EXCEPT !.isNavigatingRef = FALSE]
  /\ UNCHANGED <<hookVars, timer, maxWidth, hasTriedPositionRestore, restoredPageIndex,
                 readerRest>>

\* page.tsx, lines 498-507
goToPreviousPage ==
  /\ reader' =
       IF reader.currentPageIndex > 0
       THEN SetCurrentPageIndex([reader EXCEPT !.isNavigatingRef = TRUE],
                                reader.currentPageIndex - 1)
       ELSE [reader EXCEPT !.isNavigatingRef = FALSE]
  /\ UNCHANGED <<hookVars, timer, maxWidth, hasTriedPositionRestore, restoredPageIndex,
                 readerRest>>

\* page.tsx, lines 509-514
goToPage ==
  /\ \E pageIndex \in (-1)..ReaderMaxPage :
       reader' =
         IF pageIndex >= 0 /\ pageIndex < Len(pages)
         THEN SetCurrentPageIndex([reader EXCEPT !.isNavigatingRef = TRUE], pageIndex)
         ELSE reader
  /\ UNCHANGED <<hookVars, timer, maxWidth, hasTriedPositionRestore, restoredPageIndex,
                 readerRest>>

\* page.tsx, line 479: setTimeout(() => { isNavigatingRef.current = false }, 0)
NavigationTimeout ==
  /\ reader.navigationTimeout
  /\ reader' = [reader EXCEPT !.navigationTimeout = FALSE, !.isNavigatingRef = FALSE]
  /\ UNCHANGED <<hookVars, timer, maxWidth, hasTriedPositionRestore, restoredPageIndex,
                 readerRest>>

\* page.tsx, lines 348-358, and part_005, lines 493-501: a render with other
\* props between two calculations; the hook's effect sets its timeout
ReaderChangeProps ==
  /\ ~isCalculating
  /\ \E p \in ReaderProps :
       /\ p # <<bookData, charsPerColumn, maxWidth>>
       /\ bookData' = p[1]
       /\ charsPerColumn' = p[2]
       /\ maxWidth' = p[3]
  /\ timer' = EffectRuns(maxWidth')
  /\ reader' = Commit(reader, pages, restoredPageIndex)
  /\ UNCHANGED <<actualMaxWidth, run, pages, isCalculating, error, progress,
                 hasTriedPositionRestore, restoredPageIndex, readerRest>>

\* part_005, lines 204-241 and 497: the timeout fires and calculatePagination
\* runs to its first await
CalculationBegins ==
  /\ timer
  /\ ~isCalculating
  /\ timer' = FALSE
  /\ actualMaxWidth' = measureActualDisplayArea(container, maxWidth)
  /\ run' = RunUntilAwait(NewRun(bookData, charsPerColumn, actualMaxWidth'))
  /\ run'.pc = "await"
  /\ isCalculating' = TRUE
  /\ reader' = Commit(reader, pages, restoredPageIndex)
  /\ UNCHANGED <<bookData, charsPerColumn, maxWidth, pages, error, progress,
                 hasTriedPositionRestore, restoredPageIndex, readerRest>>

\* part_005, lines 241-479: the frames arrive and calculatePagination runs to
\* its end: setPages, setRestoredPageIndex, setIsCalculating(false), one render
CalculationEnds ==
  /\ isCalculating
  /\ LET r == RunToEnd(run)
         tries == initialPosition # Null /\ ~hasTriedPositionRestore
         foundResult == findNearestPageToPosition(r.calculatedPages, initialPosition)
     IN /\ run' = r
        /\ pages' = r.calculatedPages
        /\ hasTriedPositionRestore' = (hasTriedPositionRestore \/ tries)
        /\ restoredPageIndex' =
             IF tries /\ foundResult # Null THEN foundResult.pageIndex ELSE restoredPageIndex
        /\ isCalculating' = FALSE
        /\ reader' = Commit(reader, pages', restoredPageIndex')
  /\ UNCHANGED <<bookData, charsPerColumn, maxWidth, actualMaxWidth, error, progress, timer,
                 readerRest>>

ReaderNext ==
  \/ goToNextPage
  \/ goToPreviousPage
  \/ goToPage
  \/ NavigationTimeout
  \/ ReaderChangeProps
  \/ CalculationBegins
  \/ CalculationEnds

ReaderSpec == ReaderInit /\ [][ReaderNext]_vars

\* C29: in PaginatedBookReader, whenever the page list is non-empty and no
\* calculation is running, currentPageIndex is an index of the page list,
\* after any sequence of goToNextPage, goToPreviousPage, goToPage, position
\* restore and re-pagination.
C29_IndexInRange ==
  (reader # Null /\ Len(pages) > 0 /\ ~isCalculating) =>
    /\ 0 <= reader.currentPageIndex
    /\ reader.currentPageIndex < Len(pages)

(* ------------------- Home and useReadingState -------------------------- *)

\* pending timeouts of updatePosition in one behaviour
HomeMaxTimeouts == 2
\* block ids of the positions the reader reports
HomeMaxBlockId == 3

\* useState<string | null>(null): no book is selected
NoBook == "null"
HomeBookIds == {"a", "b"}
HomePositions == [chapterId : {1}, blockId : 1..HomeMaxBlockId, characterOffset : {0}]

\* part_010, lines 139-145
createDefaultPosition == [chapterId |-> 1, blockId |-> 1, characterOffset |-> 0]

\* part_010, lines 19-24: a ReadingState; its viewSettings are the defaults in
\* every call and its timestamp is that of the running session
ReadingStateOf(bookId, pos) == [selectedBookId |-> bookId, currentPosition |-> pos]

\* part_010, lines 127-134; every timestamp is younger than thirty days
isValidReadingState(state) == state # Null

\* page.tsx, lines 36-50, and part_004, lines 42-57: the state after the mount
\* effects, with the item stored of localStorage
MountedHome(stored, cleared) ==
  [selectedBookId |-> IF isValidReadingState(stored) THEN stored.selectedBookId ELSE NoBook,
   readingState |-> IF isValidReadingState(stored) THEN stored ELSE Null,
   stored |-> stored,
   timeouts |-> <<>>,
   cleared |-> cleared]

HomeInit ==
  /\ home = MountedHome(Null, FALSE)
  /\ reader = Null
  /\ chapterRun = Null
  /\ classRun = Null
  /\ FitIdle
  /\ finderPages = <<>>
  /\ position = Null
  /\ found = Pending
  /\ characterOffset = 0
  /\ reverse = Pending
  /\ bookData = BookOf(<<>>)
  /\ charsPerColumn = 1
  /\ actualMaxWidth = 1
  /\ run = NewRun(bookData, charsPerColumn, actualMaxWidth)
  /\ pages = <<>>
  /\ isCalculating = FALSE
  /\ error = NoError
  /\ progress = [current |-> 0, total |-> 0]
  /\ SchedulerIdle

homeRest == <<hookVars, schedulerVars, finderPages, position, found, characterOffset,
              reverse, fitVars, chapterRun, classRun, reader>>

\* page.tsx, lines 52-57, and part_004, lines 125-141: a book of the library
\* is selected; changeBook saves the new state at once
handleBookSelect ==
  /\ home.selectedBookId = NoBook
  /\ \E bookId \in HomeBookIds :
       LET newState == ReadingStateOf(bookId, createDefaultPosition)
       IN home' = [home EXCEPT !.selectedBookId = bookId,
                               !.readingState = newState,
                               !.stored = newState,
                               !.cleared = FALSE]
  /\ UNCHANGED homeRest

\* part_004, lines 60-92: the timeout of line 87 is never cleared, the function
\* line 90 returns is dropped by the caller (book-list.tsx, line 246)
updatePosition ==
  /\ Len(home.timeouts) < HomeMaxTimeouts
  /\ \E pos \in HomePositions :
       LET newState == ReadingStateOf(home.selectedBookId, pos)
       IN home' =
            IF home.selectedBookId = NoBook
            THEN [home EXCEPT !.cleared = FALSE]
            ELSE IF home.readingState # Null /\ home.readingState.currentPosition = pos
            THEN [home EXCEPT !.cleared = FALSE]
            ELSE [home EXCEPT !.readingState = newState,
                              !.timeouts = Append(@, newState),
                              !.cleared = FALSE]
  /\ UNCHANGED homeRest

\* part_004, lines 87-89, and part_010, lines 61-70: a timeout of
\* updatePosition fires, 100 ms after its call
SaveTimeout ==
  /\ home.timeouts # <<>>
  /\ home' = [home EXCEPT !.stored = Head(home.timeouts), !.timeouts = Tail(@)]
  /\ UNCHANGED homeRest

\* page.tsx, lines 59-65, and part_004, lines 144-148
handleBackToLibrary ==
  /\ home.selectedBookId # NoBook
  /\ home' = [home EXCEPT !.selectedBookId = NoBook,
                          !.readingState = Null,
                          !.stored = Null,
                          !.cleared = TRUE]
  /\ UNCHANGED homeRest

\* the page is loaded again: the timeouts of the old page are gone and Home
\* mounts with the stored item
Reload ==
  /\ home' = MountedHome(home.stored, home.cleared)
  /\ home' # home
  /\ UNCHANGED homeRest

HomeNext ==
  \/ handleBookSelect
  \/ updatePosition
  \/ SaveTimeout
  \/ handleBackToLibrary
  \/ Reload

HomeSpec == HomeInit /\ [][HomeNext]_vars

\* C30: after clearState, called when the reader returns to the library, the
\* stored reading state stays absent until the next call of changeBook or
\* updatePosition: no save scheduled by an earlier updatePosition writes it
\* back (cleared: clearState was the last of these three calls).
C30_ClearIsFinal ==
  (home # Null /\ home.cleared) => home.stored = Null

====
